---- MODULE Spec2Model ----
(***************************************************************************)
(* A model of gataku's ingestion pipeline: the JSONL content store         *)
(* (hashdb.py), the removed-media tracker, the per-status processor and    *)
(* the per-instance runner (fetch.py), and the archive step (fileops.py).  *)
(*                                                                         *)
(* Content is identified with its SHA-256 digest (a number 1..MaxHash);    *)
(* the byte size of a content is SizeOf of it.  A creation timestamp is    *)
(* the string found in "created_at": missing, empty, malformed, or an      *)
(* ISO-8601 time with or without a UTC offset.  A stored path is a         *)
(* spelling (relative or absolute) of a location in the download tree.     *)
(***************************************************************************)
EXTENDS Integers, Sequences, FiniteSets, TLC

(* ------------------------------ bounds -------------------------------- *)
MaxHash == 2        \* distinct contents (digests) a server can serve
MaxTime == 2        \* distinct creation instants
MaxUrl == 2         \* distinct media URLs
MaxMedia == 2       \* attachments per status
MaxLog == 3         \* lines a log may hold before the model stops appending
MaxPulls == 2       \* statuses the bookmark source yields in one run
MaxAttempts == 3    \* largest download.retry.max_attempts
MaxClock == 3       \* latest instant of the wall clock

(* ------------------------------ values -------------------------------- *)
Hashes == 1..MaxHash
Times == 1..MaxTime
Urls == 1..MaxUrl

\* "created_at" strings
Created(k, t) == [kind |-> k, t |-> t]
NoCreated == Created("none", 0)
BadCreated == Created("bad", 0)
Aware(t) == Created("aware", t)
Naive(t) == Created("naive", t)

\* locations of the download tree, as build_filepath's default template
\* distinguishes them: origin group / screen name - datetime - index
Loc(g, u, ts, i) == [grp |-> g, usr |-> u, ts |-> ts, idx |-> i]
NullLoc == Loc("", 0, 0, 0)
Groups == {"other", "mastodon"}
Locs == [grp : Groups, usr : {1}, ts : Times, idx : 0..MaxMedia]

\* Path.name: the location without its directories; the archive tree holds
\* relative paths and base names
BaseName(l) == [l EXCEPT !.grp = ""]
ArchLocs == Locs \cup {BaseName(l) : l \in Locs}

\* a path string: a spelling of a location
PathStr(f, l) == [form |-> f, loc |-> l]
NoPath == PathStr("none", NullLoc)

SizeOf(h) == 10 * h

(* ------------------------- hashdb.py: JsonlHashDB ---------------------- *)
\* The in-memory index is a Python dict: insertion ordered, one slot per key.
\* It is modelled as a sequence of [key, val] slots.
DictHas(d, k) == \E i \in 1..Len(d) : d[i].key = k

DictIndex(d, k) == CHOOSE i \in 1..Len(d) : d[i].key = k

\* self.entries.get(sha)
get(d, sha) == IF DictHas(d, sha) THEN {d[DictIndex(d, sha)].val} ELSE {}

\* mutant: a list append instead of a keyed assignment
DictAssignAppend(d, k, v) == Append(d, [key |-> k, val |-> v])

\* self.entries[sha] = entry
DictAssign(d, k, v) ==
    IF DictHas(d, k)
    THEN [d EXCEPT ![DictIndex(d, k)] = [key |-> k, val |-> v]]
    ELSE Append(d, [key |-> k, val |-> v])

\* del self.entries[sha]
DictDel(d, k) == SelectSeq(d, LAMBDA s : s.key # k)

\* a line of the content log: a JSON object with a sha256 key ("entry"),
\* a JSON object without one ("nokey"), or text that is not JSON ("garbage").
\* The last line may lack its newline when the writer was killed: "torn" is
\* the beginning of an object, "open" a whole object
EntryLine(r) == [kind |-> "entry", rec |-> r]

Unterminated(lines) ==
    lines # <<>> /\ lines[Len(lines)].kind \in {"torn", "open"}

RECURSIVE LoadLines(_, _)
LoadLines(lines, acc) ==
    IF lines = <<>> THEN acc
    ELSE LET l == Head(lines) IN
         LoadLines(Tail(lines),
                   IF l.kind \in {"entry", "open"}
                   THEN DictAssign(acc, l.rec.sha256, l.rec)
                   ELSE acc)

\* JsonlHashDB.__init__ / _load
_load(lines) == LoadLines(lines, <<>>)

\* mutant: the spelling is compared as it was given
NormalizeKeepsSpelling(p) == p

\* Path(value).expanduser().resolve(strict=False)
_normalize_path(p) == PathStr("abs", p.loc)

RECURSIVE DumpEntries(_)
DumpEntries(d) ==
    IF d = <<>> THEN <<>>
    ELSE <<EntryLine(Head(d).val)>> \o DumpEntries(Tail(d))

\* JsonlHashDB._rewrite_entries
_rewrite_entries(d) == DumpEntries(d)

\* the slots delete_by_filepaths removes
Matching(d, paths) ==
    LET targets == {_normalize_path(p) : p \in paths} IN
    SelectSeq(d, LAMBDA s : s.val.filepath.form # "none"
                            /\ _normalize_path(s.val.filepath) \in targets)

Remaining(d, paths) ==
    LET targets == {_normalize_path(p) : p \in paths} IN
    SelectSeq(d, LAMBDA s : ~(s.val.filepath.form # "none"
                              /\ _normalize_path(s.val.filepath) \in targets))

(* ------------------------------ config -------------------------------- *)
\* config.py: ContentFilterConfig defaults
DefaultFilter ==
    [include_audio |-> FALSE, include_gifv |-> FALSE, include_nsfw |-> FALSE,
     try_unknown_media |-> FALSE, include_self |-> FALSE,
     include_thumbnail_only |-> FALSE, include_video |-> FALSE]

\* the settings a run reads: archive.policy, archive.enabled, runtime.dry_run,
\* logging.log_removed, logging.log_duplicate, runtime.unbookmark,
\* runtime.limit (0: None or 0, which run_instance does not tell apart),
\* removed.skip_media_not_found_for (0: None or 0, which the tracker does not
\* tell apart), download.filter, download.retry.max_attempts and rate_control,
\* the instance's unbookmark_override ("none": None), and the rules of the
\* classify section of the configuration file (<<>>: no such section)
Config(pol, dry, lr, ld, ae, ub, lim, win) ==
    [policy |-> pol, dry_run |-> dry, log_removed |-> lr, log_duplicate |-> ld,
     archive_enabled |-> ae, unbookmark |-> ub, limit |-> lim, window |-> win,
     filter |-> DefaultFilter, max_attempts |-> 3, retry_rate_control |-> TRUE,
     unbookmark_override |-> "none", rules |-> <<>>]

Policies == {"keep_old", "latest", "database"}

\* InstanceConfig: the account the bookmarks belong to
Inst == [account_id |-> 1, account_handle |-> 0]

\* PathConfig.download is the relative directory "data"
DownloadRootForm == "rel"

(* ------------------------------ statuses ------------------------------ *)
\* a media attachment: remote_url / url (0: missing) and its type tag
Media(ru, u, ty) == [remote_url |-> ru, url |-> u, type |-> ty]
Image(u) == Media(u, 0, "image")

\* a status: id, created_at, author (id and normalised handle), sensitive
\* flag and its ordered attachments
Status(i, c, a, s, m) ==
    [id |-> i, created_at |-> c, account |-> a, sensitive |-> s, media |-> m]

NullStatus == Status(0, NoCreated, 0, FALSE, <<>>)

\* m.get("remote_url") or m.get("url")
MediaUrl(m) == IF m.remote_url # 0 THEN m.remote_url ELSE m.url

media_urls(st) == [i \in 1..Len(st.media) |-> MediaUrl(st.media[i])]

(* --------------------------- util.py / fetch.py ------------------------ *)
\* _safe_parse_created: None unless the string is a well-formed ISO time
Parses(c) == c.kind \in {"aware", "naive"}

\* datetime.__lt__: comparing an offset-naive with an offset-aware datetime
\* raises TypeError
Comparable(a, b) == a.kind = b.kind

(* ------------------------------ filters.py ---------------------------- *)
\* _looks_like_image: the path of the URL ends in an image extension; of the
\* modelled URLs the odd ones do (".../file.png"), the even ones do not
_looks_like_image(m) == MediaUrl(m) # 0 /\ MediaUrl(m) % 2 = 1

\* the set `types` of should_skip ("none": no type key)
MediaTypes(st, f) ==
    {IF f.try_unknown_media /\ st.media[i].type \in {"none", "unknown", "other", ""}
        /\ _looks_like_image(st.media[i])
     THEN "image" ELSE st.media[i].type : i \in 1..Len(st.media)}

\* mutant: the media checks before the self-post check
should_skip_media_first(st, inst, f) ==
    LET types == MediaTypes(st, f)
        nonimg == types \ {"none", "image"}
        rest == IF f.include_audio THEN nonimg \ {"audio"} ELSE nonimg
    IN  IF st.media = <<>> THEN "no_media"
        ELSE IF ~f.include_gifv /\ "gifv" \in types THEN "gifv_media"
        ELSE IF "audio" \in nonimg /\ ~f.include_audio THEN "audio_media"
        ELSE IF rest # {} /\ ~f.include_video THEN "non_image_media"
        ELSE IF ~f.include_self
                /\ ((inst.account_id # 0 /\ st.account = inst.account_id)
                    \/ (inst.account_handle # 0 /\ st.account = inst.account_handle))
        THEN "self_post"
        ELSE IF ~f.include_thumbnail_only
                /\ \E i \in 1..Len(st.media) : st.media[i].remote_url = 0
        THEN "no_remote_url"
        ELSE IF ~f.include_nsfw /\ st.sensitive THEN "nsfw_filtered"
        ELSE ""

\* should_skip: "" when the status is to be processed
should_skip(st, inst, f) ==
    LET types == MediaTypes(st, f)
        nonimg == types \ {"none", "image"}
        rest == IF f.include_audio THEN nonimg \ {"audio"} ELSE nonimg
    IN  IF ~f.include_self
           /\ ((inst.account_id # 0 /\ st.account = inst.account_id)
               \/ (inst.account_handle # 0 /\ st.account = inst.account_handle))
        THEN "self_post"
        ELSE IF st.media = <<>> THEN "no_media"
        ELSE IF ~f.include_gifv /\ "gifv" \in types THEN "gifv_media"
        ELSE IF "audio" \in nonimg /\ ~f.include_audio THEN "audio_media"
        ELSE IF rest # {} /\ ~f.include_video THEN "non_image_media"
        ELSE IF ~f.include_thumbnail_only
                /\ \E i \in 1..Len(st.media) : st.media[i].remote_url = 0
        THEN "no_remote_url"
        ELSE IF ~f.include_nsfw /\ st.sensitive THEN "nsfw_filtered"
        ELSE ""

(* ------------------------------ classify.py --------------------------- *)
\* the hosts of the modelled URLs: odd URLs live on a CDN, even ones on a
\* Mastodon media host
classify_origin_host(u) ==
    IF u % 2 = 1 THEN "cdn.example" ELSE "files.mastodon.example"

\* every modelled status lives on example.social
classify_account_host(st) == "example.social"

Rule(mt, g) == [match |-> mt, group |-> g]

DEFAULT_CLASSIFICATION_RULE_SPECS ==
    <<Rule("*misskey*", "misskey"), Rule("*mastodon*", "mastodon"),
      Rule("*.mstdn.jp", "mastodon"), Rule("pawoo.net", "pawoo"), Rule("*", "other")>>

\* str.lower on the patterns and hostnames of the model
lower(x) == IF x = "*.EXAMPLE" THEN "*.example" ELSE x

\* fnmatch(host, pattern) on the hostnames of the model
fnmatch(host, pat) ==
    CASE pat = "*" -> TRUE
      [] pat = "*mastodon*" -> host = "files.mastodon.example"
      [] pat = "*.example" -> host \in {"cdn.example", "files.mastodon.example"}
      [] pat = "*.social" -> host = "example.social"
      [] OTHER -> FALSE

\* _iter_rules(config): the rules of the config object when it is given and
\* has some, the default rules otherwise; config is {} for None
_iter_rules(config) ==
    IF \E c \in config : c.rules # <<>>
    THEN LET rules == (CHOOSE c \in config : TRUE).rules
             given == SelectSeq(rules, LAMBDA r : r.match # "" /\ r.group # "")
         IN  [i \in 1..Len(given) |-> Rule(lower(given[i].match), given[i].group)]
    ELSE DEFAULT_CLASSIFICATION_RULE_SPECS

\* _classify_host(host, config): the group of the first rule that matches
_classify_host(host, config) ==
    LET rules == _iter_rules(config)
        hits == {i \in 1..Len(rules) : fnmatch(lower(host), rules[i].match)}
    IN  IF host = "" \/ hits = {} THEN "other"
        ELSE rules[CHOOSE i \in hits : \A j \in hits : i <= j].group

\* classify_origin_group(host) and classify_account_group(host) as
\* process_status calls them: without the config argument
NoConfig == {}

(* ------------------------------ filenames.py -------------------------- *)
\* build_filepath with the default pattern
\* {origin_group}/{yearmonth}/{screenname}-{datetime}-{index}.{ext}
build_filepath(st, index, origin_group) ==
    PathStr(DownloadRootForm, Loc(origin_group, 1, st.created_at.t, index))

(* ----------------------- fetch.py: RemovedMediaTracker ----------------- *)
RemovedRec(t, sha, st, reason, oh, og, ah, ag) ==
    [time |-> t, sha256 |-> sha, statusid |-> st.id, media_urls |-> media_urls(st),
     reason |-> reason, created_at |-> st.created_at,
     origin_host |-> oh, origin_group |-> og,
     account_host |-> ah, account_group |-> ag]

\* mutant: a line as old as the cutoff is dropped too (ts <= cutoff)
_load_recent_entries_strict(lines, clock, window) ==
    UNION {{lines[i].rec.media_urls[j] : j \in 1..Len(lines[i].rec.media_urls)} \ {0} :
           i \in {k \in 1..Len(lines) :
                    /\ lines[k].kind = "entry"
                    /\ lines[k].rec.reason = "media_not_found"
                    /\ lines[k].rec.time > clock - window}}

\* RemovedMediaTracker._load_recent_entries: the URLs of the media_not_found
\* lines not older than the cutoff
_load_recent_entries(lines, clock, window) ==
    UNION {{lines[i].rec.media_urls[j] : j \in 1..Len(lines[i].rec.media_urls)} \ {0} :
           i \in {k \in 1..Len(lines) :
                    /\ lines[k].kind = "entry"
                    /\ lines[k].rec.reason = "media_not_found"
                    /\ lines[k].rec.time >= clock - window}}

\* _load_recent_entries: a line that is JSON but not an object ("nonobject")
\* passes json.loads and fails at entry.get with an AttributeError
load_raises(lines) == \E k \in 1..Len(lines) : lines[k].kind = "nonobject"

\* mutant: the log is loaded whether the tracker is enabled or not
TrackerLoadsAlways(lines, clock, window) == _load_recent_entries(lines, clock, window)

\* RemovedMediaTracker.__init__
Tracker(lines, clock, window) ==
    IF window > 0 THEN _load_recent_entries(lines, clock, window) ELSE {}

\* mutant: the tracker is never consulted
tracker_never_skips(rec, window, u) == FALSE

\* RemovedMediaTracker.should_skip
tracker_should_skip(rec, window, u) == window > 0 /\ u # 0 /\ u \in rec

\* mutant: the map is rebuilt from the URLs of the call
record_forgets(rec, window, u) == IF window > 0 /\ u # 0 THEN {u} ELSE rec

\* RemovedMediaTracker.record
record(rec, window, u) == IF window > 0 /\ u # 0 THEN rec \cup {u} ELSE rec

(* ------------------------------ state --------------------------------- *)
VARIABLES
    cfg,            \* GlobalConfig of the running process
    now,            \* wall clock
    entries,        \* JsonlHashDB.entries
    recent,         \* RemovedMediaTracker._recent (its keys)
    hashdb,         \* lines of the content log on disk
    removed,        \* lines of the removal log on disk
    dlog,           \* lines of the download log on disk
    files,          \* download tree: location -> content (0: no file)
    archive,        \* archive tree: location -> content (0: no file)
    tmpfiles,       \* staged temp files that exist
    deleted,        \* status ids given to api.delete_bookmark
    sleeps,         \* rate-control sleeps of run_instance
    pc,             \* position of the process
    status,         \* process_status: the status in hand
    idx,            \* process_status: index of the attachment in hand
    any_downloaded, \* process_status: local flag
    staged,         \* process_status: (sha256, size) of the staged download
    outcome,        \* per attachment of the status: its state and content
    ok,             \* run_instance: result of process_status
    count,          \* run_instance: statuses processed in this run
    pulled,         \* statuses the bookmark source has yielded so far
    prevStatus,     \* the status of the previous process_status call,
    prevOutcome,    \*   what became of its attachments,
    prevOk,         \*   and whether it completed (unfiltered, not dry-run)
    tries,          \* download_and_sha256: what each attempt so far came to
    naps,           \* download_and_sha256: the delays slept between attempts
    result,         \* download_and_sha256: what the call returned or raised
    pruned,         \* delete_by_filepaths: the last call's paths and result
    crashed,        \* where the process was when it was last killed
    notfound        \* the downloads that have answered 404 so far: URL and time

disk == <<hashdb, removed, dlog, files, archive, tmpfiles>>
call == <<status, idx, any_downloaded, staged, outcome>>
prev == <<prevStatus, prevOutcome, prevOk>>
dl == <<tries, naps, result>>
ops == <<pruned, crashed, notfound>>
vars == <<cfg, dl, ops, now, entries, recent, disk, deleted, sleeps, pc, call, ok, count,
          pulled, prev>>

\* what an attempt or the call yields: the (sha256, size) of the staged file
\* it returns, or the exception it raises
Returned(h) == [err |-> "", sha256 |-> h, size |-> SizeOf(h)]
Raised(e) == [err |-> e, sha256 |-> 0, size |-> 0]
NoResult == [kind |-> "none", val |-> Raised("")]

\* delete_by_filepaths: what a call was given, what it returned and how many
\* times it rewrote the content log
DeleteCall(ps, ret, n) == [called |-> TRUE, paths |-> ps, ret |-> ret, rewrites |-> n]
NoDelete == [called |-> FALSE, paths |-> {}, ret |-> <<>>, rewrites |-> 0]

NoStaged == [sha256 |-> 0, size |-> 0]
Out(s, h) == [st |-> s, sha |-> h]
Duplicates == {"duplicate_unknown", "duplicate_younger", "duplicate_newer"}

ContentRec(sha, st, path, size, oh, og, ah, ag) ==
    [sha256 |-> sha, statusid |-> st.id, created_at |-> st.created_at,
     filepath |-> path, size |-> size,
     origin_host |-> oh, origin_group |-> og,
     account_host |-> ah, account_group |-> ag]

DownloadRec(t, st, path, sha, size) ==
    [time |-> t, filepath |-> path, sha256 |-> sha, size |-> size,
     statusid |-> st.id, created_at |-> st.created_at]

\* JsonlHashDB.set: the index after the call, and the log after the call
set(d, entry) == DictAssign(d, entry.sha256, entry)

\* mutant: the line of the superseded record is edited out of the log
set_log_in_place(lines, entry) ==
    SelectSeq(lines, LAMBDA l : ~(l.kind = "entry" /\ l.rec.sha256 = entry.sha256))
        \o <<EntryLine(entry)>>

\* open(path, "a") and write(json + "\n"): the text goes after the last byte
\* of the file, so after an unterminated line it makes one line with it,
\* which is not JSON
set_log(lines, entry) ==
    IF Unterminated(lines)
    THEN [lines EXCEPT ![Len(lines)] = [kind |-> "garbage", rec |-> entry]]
    ELSE Append(lines, EntryLine(entry))

\* mutant: the record is not written
db_log_removed_dropped(lines, rec) == lines

\* JsonlHashDB.log_removed
db_log_removed(lines, rec) == Append(lines, EntryLine(rec))

\* mutant: the dry-run test is missing
log_removed_always(lines, c, rec) == db_log_removed(lines, rec)

\* fetch.log_removed: nothing during dry-run
log_removed(lines, c, rec) == IF c.dry_run THEN lines ELSE db_log_removed(lines, rec)

\* mutant: the dry-run test is missing
log_download_always(lines, c, rec) == Append(lines, rec)

\* fetch.log_download: nothing during dry-run
log_download(lines, c, rec) == IF c.dry_run THEN lines ELSE Append(lines, rec)

\* the download tree that matches a content log: every record's file exists
FilesFor(lines) ==
    LET d == _load(lines) IN
    [l \in Locs |->
        IF \E i \in 1..Len(d) : d[i].val.filepath.loc = l
        THEN d[CHOOSE i \in 1..Len(d) : d[i].val.filepath.loc = l].key
        ELSE 0]

(* --------------------- the attachment in hand -------------------------- *)
CurMedia == status.media[idx + 1]
CurUrl == MediaUrl(CurMedia)
CurOriginHost == classify_origin_host(CurUrl)
CurOriginGroup == _classify_host(CurOriginHost, NoConfig)
CurAccountHost == classify_account_host(status)
CurAccountGroup == _classify_host(CurAccountHost, NoConfig)
Existing == get(entries, staged.sha256)
TheExisting == CHOOSE e \in Existing : TRUE

SetOutcome(s, h) == outcome' = [outcome EXCEPT ![idx + 1] = Out(s, h)]

NextAttachment == /\ idx' = idx + 1
                  /\ pc' = "media"

\* an exception leaves process_status, run_instance and run_all; main reports it
Raise(s, h) == /\ SetOutcome(s, h)
               /\ pc' = "fatal"
               /\ prevOk' = FALSE
               /\ UNCHANGED <<prevStatus, prevOutcome>>

CurRemoved(sha, reason) ==
    RemovedRec(now, sha, status, reason, CurOriginHost, CurOriginGroup,
               CurAccountHost, CurAccountGroup)

(* ---------------- process_status: the duplicate decision --------------- *)
\* mutant: replace when the new status is not newer (<=)
DecideTies(existing, created_new, policy) ==
    IF existing = {} THEN "store"
    ELSE LET created_old == (CHOOSE e \in existing : TRUE).created_at IN
         IF ~Parses(created_new) \/ ~Parses(created_old) \/ policy = "database"
         THEN "duplicate_unknown"
         ELSE IF ~Comparable(created_new, created_old) THEN "raise"
         ELSE LET new_is_older == created_new.t <= created_old.t IN
              IF policy = "keep_old" /\ ~new_is_older THEN "duplicate_younger"
              ELSE IF policy = "latest" /\ ~new_is_older THEN "duplicate_newer"
              ELSE "replace"

\* mutant: the age comparison before the parse and policy check
DecideAgeFirst(existing, created_new, policy) ==
    IF existing = {} THEN "store"
    ELSE LET created_old == (CHOOSE e \in existing : TRUE).created_at IN
         IF Parses(created_new) /\ Parses(created_old)
            /\ Comparable(created_new, created_old)
            /\ created_new.t >= created_old.t
         THEN (IF policy = "latest" THEN "duplicate_newer" ELSE "duplicate_younger")
         ELSE IF ~Parses(created_new) \/ ~Parses(created_old) \/ policy = "database"
         THEN "duplicate_unknown"
         ELSE IF ~Comparable(created_new, created_old) THEN "raise"
         ELSE "replace"

\* fetch.py 376-449: what becomes of a download whose hash is `existing`
Decide(existing, created_new, policy) ==
    IF existing = {} THEN "store"
    ELSE LET created_old == (CHOOSE e \in existing : TRUE).created_at IN
         IF ~Parses(created_new) \/ ~Parses(created_old) \/ policy = "database"
         THEN "duplicate_unknown"
         ELSE IF ~Comparable(created_new, created_old) THEN "raise"
         ELSE LET new_is_older == created_new.t < created_old.t IN
              IF policy = "keep_old" /\ ~new_is_older THEN "duplicate_younger"
              ELSE IF policy = "latest" /\ ~new_is_older THEN "duplicate_newer"
              ELSE "replace"

Decision == Decide(Existing, status.created_at, cfg.policy)

(* ------------------------ main.py / run_instance ----------------------- *)
\* main: JsonlHashDB(...) loads the content log; run_instance builds the tracker
StartRun ==
    /\ pc \in {"idle", "fatal"}
    /\ pulled < MaxPulls
    /\ ~(cfg.window > 0 /\ load_raises(removed))
    /\ entries' = _load(hashdb)
    /\ recent' = Tracker(removed, now, cfg.window)
    /\ count' = 0
    /\ pc' = "pull"
    /\ status' = NullStatus
    /\ idx' = 0
    /\ any_downloaded' = FALSE
    /\ staged' = NoStaged
    /\ outcome' = <<>>
    /\ ok' = FALSE
    /\ UNCHANGED <<cfg, dl, ops, now, disk, deleted, sleeps, pulled, prev>>

\* run_instance 524-527: the tracker's constructor raises
StartRunRaises ==
    /\ pc \in {"idle", "fatal"}
    /\ pulled < MaxPulls
    /\ cfg.window > 0 /\ load_raises(removed)
    /\ entries' = _load(hashdb)
    /\ pc' = "fatal"
    /\ UNCHANGED <<cfg, dl, ops, now, recent, disk, deleted, sleeps, call, ok, count,
                   pulled, prev>>

\* time passes
Tick ==
    /\ now < MaxClock
    /\ now' = now + 1
    /\ UNCHANGED <<cfg, dl, ops, entries, recent, disk, deleted, sleeps, pc, call, ok,
                   count, pulled, prev>>

\* for status in api.fetch_bookmarks(): the source yields st
Pull(st) ==
    /\ pc = "pull"
    /\ pulled < MaxPulls
    /\ pulled' = pulled + 1
    /\ status' = st
    /\ idx' = 0
    /\ any_downloaded' = FALSE
    /\ staged' = NoStaged
    /\ outcome' = [i \in 1..Len(st.media) |-> Out("Pending", 0)]
    /\ pc' = "filter"
    /\ UNCHANGED <<cfg, dl, ops, now, entries, recent, disk, deleted, sleeps, ok, count, prev>>

\* the source is exhausted: run_instance and the process end
EndFeed ==
    /\ pc = "pull"
    /\ pc' = "idle"
    /\ UNCHANGED <<cfg, dl, ops, now, entries, recent, disk, deleted, sleeps, call, ok,
                   count, pulled, prev>>

(* ------------------------ process_status: filter ----------------------- *)
\* mutant: the return after the removal line is missing
FilterSkipKeepsGoing ==
    /\ pc = "filter"
    /\ should_skip(status, Inst, cfg.filter) # ""
    /\ removed' = IF cfg.log_removed
                  THEN log_removed(removed, cfg,
                         RemovedRec(now, 0, status,
                                    should_skip(status, Inst, cfg.filter),
                                    "", "", "", ""))
                  ELSE removed
    /\ ok' = FALSE
    /\ pc' = "media"
    /\ UNCHANGED <<cfg, dl, ops, now, entries, recent, hashdb, dlog, files, archive,
                   tmpfiles, deleted, sleeps, call, count, pulled, prev>>

\* 289-316: the status is filtered: one removal line, return False
FilterSkip ==
    /\ pc = "filter"
    /\ should_skip(status, Inst, cfg.filter) # ""
    /\ removed' = IF cfg.log_removed
                  THEN log_removed(removed, cfg,
                         RemovedRec(now, 0, status,
                                    should_skip(status, Inst, cfg.filter),
                                    "", "", "", ""))
                  ELSE removed
    /\ ok' = FALSE
    /\ pc' = "after"
    /\ UNCHANGED <<cfg, dl, ops, now, entries, recent, hashdb, dlog, files, archive,
                   tmpfiles, deleted, sleeps, call, count, pulled, prev>>

FilterPass ==
    /\ pc = "filter"
    /\ should_skip(status, Inst, cfg.filter) = ""
    /\ pc' = "media"
    /\ UNCHANGED <<cfg, dl, ops, now, entries, recent, disk, deleted, sleeps, call, ok,
                   count, pulled, prev>>

(* -------------------- process_status: one attachment ------------------- *)
InLoop == pc = "media" /\ idx < Len(status.media)

\* if not remote_url: continue
SkipNoUrl ==
    /\ InLoop
    /\ CurUrl = 0
    /\ SetOutcome("NoUrl", 0)
    /\ NextAttachment
    /\ UNCHANGED <<cfg, dl, ops, now, entries, recent, disk, deleted, sleeps, status,
                   any_downloaded, staged, ok, count, pulled, prev>>

\* removed_tracker.should_skip(remote_url): continue
SkipCached ==
    /\ InLoop
    /\ CurUrl # 0
    /\ tracker_should_skip(recent, cfg.window, CurUrl)
    /\ SetOutcome("Cached", 0)
    /\ NextAttachment
    /\ UNCHANGED <<cfg, dl, ops, now, entries, recent, disk, deleted, sleeps, status,
                   any_downloaded, staged, ok, count, pulled, prev>>

CanDownload ==
    /\ InLoop
    /\ CurUrl # 0
    /\ ~tracker_should_skip(recent, cfg.window, CurUrl)

\* download_and_sha256 returns a staged file with content h
DownloadOk(h) ==
    /\ CanDownload
    /\ staged' = [sha256 |-> h, size |-> SizeOf(h)]
    /\ tmpfiles' = tmpfiles + 1
    /\ any_downloaded' = TRUE
    /\ SetOutcome("Downloaded", h)
    /\ pc' = "dedup"
    /\ UNCHANGED <<cfg, dl, ops, now, entries, recent, hashdb, removed, dlog, files,
                   archive, deleted, sleeps, status, idx, ok, count, pulled, prev>>

\* mutant: a 404 ends the loop over the attachments
DownloadNotFoundBreaks ==
    /\ CanDownload
    /\ recent' = record(recent, cfg.window, CurUrl)
    /\ notfound' = notfound \cup {[url |-> CurUrl, time |-> now]}
    /\ removed' = IF cfg.log_removed
                  THEN log_removed(removed, cfg, CurRemoved(0, "media_not_found"))
                  ELSE removed
    /\ SetOutcome("NotFound", 0)
    /\ idx' = Len(status.media)
    /\ pc' = "media"
    /\ UNCHANGED <<cfg, dl, pruned, crashed, now, entries, hashdb, dlog, files,
                   archive, tmpfiles, deleted, sleeps, status, any_downloaded, staged,
                   ok, count, pulled, prev>>

\* download_and_sha256 raises HTTPError with status 404
DownloadNotFound ==
    /\ CanDownload
    /\ recent' = record(recent, cfg.window, CurUrl)
    /\ notfound' = notfound \cup {[url |-> CurUrl, time |-> now]}
    /\ removed' = IF cfg.log_removed
                  THEN log_removed(removed, cfg, CurRemoved(0, "media_not_found"))
                  ELSE removed
    /\ SetOutcome("NotFound", 0)
    /\ NextAttachment
    /\ UNCHANGED <<cfg, dl, pruned, crashed, now, entries, hashdb, dlog, files,
                   archive, tmpfiles, deleted, sleeps, status, any_downloaded, staged,
                   ok, count, pulled, prev>>

\* mutant: the error is swallowed and the loop goes on
DownloadFailedContinues ==
    /\ CanDownload
    /\ SetOutcome("TransportFailure", 0)
    /\ NextAttachment
    /\ UNCHANGED <<cfg, dl, ops, now, entries, recent, disk, deleted, sleeps, status,
                   any_downloaded, staged, ok, count, pulled, prev>>

\* download_and_sha256 raises anything else (another HTTP status, a
\* connection error, a timeout): process_status re-raises
DownloadFailed ==
    /\ CanDownload
    /\ Raise("TransportFailure", 0)
    /\ UNCHANGED <<cfg, dl, ops, now, entries, recent, disk, deleted, sleeps, status, idx,
                   any_downloaded, staged, ok, count, pulled>>

(* ---------------- process_status: an existing record ------------------ *)
\* mutant: the staged file is unlinked only when something was logged
DiscardUnlinkWhenLogged ==
    /\ pc = "dedup"
    /\ Decision \in Duplicates
    /\ removed' = IF cfg.log_duplicate
                  THEN log_removed(removed, cfg, CurRemoved(staged.sha256, Decision))
                  ELSE removed
    /\ tmpfiles' = IF cfg.log_duplicate /\ ~cfg.dry_run THEN tmpfiles - 1 ELSE tmpfiles
    /\ staged' = NoStaged
    /\ SetOutcome(Decision, staged.sha256)
    /\ NextAttachment
    /\ UNCHANGED <<cfg, dl, ops, now, entries, recent, hashdb, dlog, files, archive,
                   deleted, sleeps, status, any_downloaded, ok, count, pulled, prev>>

\* the three discarding branches: log_removed when log_duplicate, unlink
Discard ==
    /\ pc = "dedup"
    /\ Decision \in Duplicates
    /\ removed' = IF cfg.log_duplicate
                  THEN log_removed(removed, cfg, CurRemoved(staged.sha256, Decision))
                  ELSE removed
    /\ tmpfiles' = tmpfiles - 1
    /\ staged' = NoStaged
    /\ SetOutcome(Decision, staged.sha256)
    /\ NextAttachment
    /\ UNCHANGED <<cfg, dl, ops, now, entries, recent, hashdb, dlog, files, archive,
                   deleted, sleeps, status, any_downloaded, ok, count, pulled, prev>>

\* created_new < created_old between a naive and an aware datetime
CompareRaises ==
    /\ pc = "dedup"
    /\ Decision = "raise"
    /\ Raise("Raised", staged.sha256)
    /\ UNCHANGED <<cfg, dl, ops, now, entries, recent, disk, deleted, sleeps, status, idx,
                   any_downloaded, staged, ok, count, pulled>>

\* fileops.move_to_archive(original_path): the trees afterwards
archive_files(fs, c, l) == IF fs[l] = 0 THEN fs ELSE [fs EXCEPT ![l] = 0]

\* original_path.relative_to(download_root), with the fallback to the base
\* name: the comparison is one of spellings, so a path spelled otherwise than
\* the download root is taken to lie outside it
archive_rel(p, root) == IF p.form = root THEN p.loc ELSE BaseName(p.loc)

archive_tree(ar, fs, c, p) ==
    IF fs[p.loc] = 0 \/ ~c.archive_enabled THEN ar
    ELSE [ar EXCEPT ![archive_rel(p, DownloadRootForm)] = fs[p.loc]]

OldLoc == TheExisting.filepath.loc

\* mutant: the old file is left where it is
ReplaceArchiveSkipped ==
    /\ pc = "dedup"
    /\ Decision = "replace"
    /\ SetOutcome("Replacing", staged.sha256)
    /\ pc' = "rep_rename"
    /\ UNCHANGED <<cfg, dl, ops, now, entries, recent, disk, deleted, sleeps, status,
                   idx, any_downloaded, staged, ok, count, pulled, prev>>

\* replace_existing 230-236: move the old file to the archive
ReplaceArchive ==
    /\ pc = "dedup"
    /\ Decision = "replace"
    /\ IF cfg.dry_run
       THEN UNCHANGED <<files, archive>>
       ELSE /\ files' = archive_files(files, cfg, OldLoc)
            /\ archive' = archive_tree(archive, files, cfg, TheExisting.filepath)
    /\ SetOutcome("Replacing", staged.sha256)
    /\ pc' = "rep_rename"
    /\ UNCHANGED <<cfg, dl, ops, now, entries, recent, hashdb, removed, dlog, tmpfiles,
                   deleted, sleeps, status, idx, any_downloaded, staged, ok,
                   count, pulled, prev>>

\* replace_existing 238-242: rename the staged file (dry-run: unlink it)
ReplaceRename ==
    /\ pc = "rep_rename"
    /\ files' = IF cfg.dry_run THEN files
                ELSE [files EXCEPT ![OldLoc] = staged.sha256]
    /\ tmpfiles' = tmpfiles - 1
    /\ pc' = "rep_record"
    /\ UNCHANGED <<cfg, dl, ops, now, entries, recent, hashdb, removed, dlog, archive,
                   deleted, sleeps, call, ok, count, pulled, prev>>

\* mutant: the record is rebuilt for the new status, as for a new file
ReplacedAsNew(e, st, oh, og, ah, ag) ==
    [e EXCEPT !.created_at = st.created_at, !.statusid = st.id,
              !.origin_host = oh, !.origin_group = og,
              !.account_host = ah, !.account_group = ag]

\* replace_existing 244-252: the fields written into the existing dict
Replaced(e, st, oh, og, ah, ag) ==
    [e EXCEPT !.created_at = st.created_at,
              !.origin_host = oh, !.origin_group = og,
              !.account_host = ah, !.account_group = ag]

\* replace_existing 244-255: `existing` is the dict held by the index, so the
\* assignments change the index also when db.set is not called
ReplaceRecord ==
    /\ pc = "rep_record"
    /\ LET e == Replaced(TheExisting, status, CurOriginHost, CurOriginGroup,
                         CurAccountHost, CurAccountGroup)
       IN  /\ entries' = set(entries, e)
           /\ hashdb' = IF cfg.dry_run THEN hashdb ELSE set_log(hashdb, e)
    /\ pc' = "rep_log"
    /\ UNCHANGED <<cfg, dl, ops, now, recent, removed, dlog, files, archive, tmpfiles,
                   deleted, sleeps, call, ok, count, pulled, prev>>

\* replace_existing 257-269
ReplaceLog ==
    /\ pc = "rep_log"
    /\ dlog' = log_download(dlog, cfg,
                 DownloadRec(now, status, TheExisting.filepath,
                             TheExisting.sha256, TheExisting.size))
    /\ staged' = NoStaged
    /\ SetOutcome("Replaced", staged.sha256)
    /\ NextAttachment
    /\ UNCHANGED <<cfg, dl, ops, now, entries, recent, hashdb, removed, files, archive,
                   tmpfiles, deleted, sleeps, status, any_downloaded, ok, count,
                   pulled, prev>>

(* -------------------- process_status: a new file ---------------------- *)
Dst == build_filepath(status, idx, CurOriginGroup)

\* build_filepath: parse_time(status["created_at"]) raises
StoreRaises ==
    /\ pc = "dedup"
    /\ Decision = "store"
    /\ ~Parses(status.created_at)
    /\ Raise("Raised", staged.sha256)
    /\ UNCHANGED <<cfg, dl, ops, now, entries, recent, disk, deleted, sleeps, status, idx,
                   any_downloaded, staged, ok, count, pulled>>

\* mutant: the staged file is dropped and nothing is put at dst
StorePlaceNothing ==
    /\ pc = "dedup"
    /\ Decision = "store"
    /\ Parses(status.created_at)
    /\ tmpfiles' = tmpfiles - 1
    /\ SetOutcome("Storing", staged.sha256)
    /\ pc' = "new_record"
    /\ UNCHANGED <<cfg, dl, ops, now, entries, recent, hashdb, removed, dlog, files,
                   archive, deleted, sleeps, status, idx, any_downloaded, staged, ok,
                   count, pulled, prev>>

\* 452-470: rename the staged file to dst (dry-run: unlink it)
StorePlace ==
    /\ pc = "dedup"
    /\ Decision = "store"
    /\ Parses(status.created_at)
    /\ files' = IF cfg.dry_run THEN files
                ELSE [files EXCEPT ![Dst.loc] = staged.sha256]
    /\ tmpfiles' = tmpfiles - 1
    /\ SetOutcome("Storing", staged.sha256)
    /\ pc' = "new_record"
    /\ UNCHANGED <<cfg, dl, ops, now, entries, recent, hashdb, removed, dlog, archive,
                   deleted, sleeps, status, idx, any_downloaded, staged, ok,
                   count, pulled, prev>>

NewRec == ContentRec(staged.sha256, status, Dst, staged.size,
                     CurOriginHost, CurOriginGroup, CurAccountHost, CurAccountGroup)

\* 472-490
StoreRecord ==
    /\ pc = "new_record"
    /\ IF cfg.dry_run
       THEN UNCHANGED <<entries, hashdb>>
       ELSE /\ entries' = set(entries, NewRec)
            /\ hashdb' = set_log(hashdb, NewRec)
    /\ pc' = "new_log"
    /\ UNCHANGED <<cfg, dl, ops, now, recent, removed, dlog, files, archive, tmpfiles,
                   deleted, sleeps, call, ok, count, pulled, prev>>

\* 492-504
StoreLog ==
    /\ pc = "new_log"
    /\ dlog' = log_download(dlog, cfg,
                 DownloadRec(now, status, Dst, staged.sha256, staged.size))
    /\ staged' = NoStaged
    /\ SetOutcome("Stored", staged.sha256)
    /\ NextAttachment
    /\ UNCHANGED <<cfg, dl, ops, now, entries, recent, hashdb, removed, files, archive,
                   tmpfiles, deleted, sleeps, status, any_downloaded, ok, count,
                   pulled, prev>>

\* mutant: the flag is set where a file is stored, not where it is downloaded
ReturnStoredOnly ==
    /\ pc = "media"
    /\ idx = Len(status.media)
    /\ ok' = \E i \in 1..Len(outcome) : outcome[i].st \in {"Stored", "Replaced"}
    /\ pc' = "after"
    /\ UNCHANGED <<cfg, dl, ops, now, entries, recent, disk, deleted, sleeps, call, count,
                   pulled, prev>>

\* return any_downloaded
Return ==
    /\ pc = "media"
    /\ idx = Len(status.media)
    /\ ok' = any_downloaded
    /\ pc' = "after"
    /\ UNCHANGED <<cfg, dl, ops, now, entries, recent, disk, deleted, sleeps, call, count,
                   pulled, prev>>

(* ------------------- run_instance: after process_status ---------------- *)
Unbookmark == IF cfg.unbookmark_override = "none" THEN cfg.unbookmark
              ELSE cfg.unbookmark_override = "true"

\* mutant: one sleep per downloaded attachment
RateSleepPerDownload ==
    /\ pc = "after"
    /\ sleeps' = sleeps + Cardinality({i \in 1..Len(outcome) :
                                         outcome[i].st \notin {"Pending", "NoUrl",
                                                               "Cached", "NotFound"}})
    /\ pc' = "count"
    /\ UNCHANGED <<cfg, dl, ops, now, entries, recent, disk, deleted, call, ok, count,
                   pulled, prev>>

\* 556-562: if ok: time.sleep(delay)
RateSleep ==
    /\ pc = "after"
    /\ sleeps' = IF ok THEN sleeps + 1 ELSE sleeps
    /\ pc' = "count"
    /\ UNCHANGED <<cfg, dl, ops, now, entries, recent, disk, deleted, call, ok, count,
                   pulled, prev>>

\* mutant: only the statuses that downloaded something are counted
AfterStatusCountsDownloads ==
    /\ pc = "count"
    /\ UNCHANGED sleeps
    /\ count' = IF ok THEN count + 1 ELSE count
    /\ IF cfg.limit # 0 /\ count' >= cfg.limit
       THEN /\ pc' = "idle"
            /\ UNCHANGED deleted
       ELSE /\ pc' = "pull"
            /\ deleted' = IF ok /\ Unbookmark /\ ~cfg.dry_run
                          THEN deleted \cup {status.id} ELSE deleted
    /\ prevStatus' = status
    /\ prevOutcome' = outcome
    /\ prevOk' = (should_skip(status, Inst, cfg.filter) = "" /\ ~cfg.dry_run)
    /\ UNCHANGED <<cfg, dl, ops, now, entries, recent, disk, call, ok, pulled>>

\* 564-577: count, limit (break), unbookmark
AfterStatus ==
    /\ pc = "count"
    /\ UNCHANGED sleeps
    /\ count' = count + 1
    /\ IF cfg.limit # 0 /\ count + 1 >= cfg.limit
       THEN /\ pc' = "idle"
            /\ UNCHANGED deleted
       ELSE /\ pc' = "pull"
            /\ deleted' = IF ok /\ Unbookmark /\ ~cfg.dry_run
                          THEN deleted \cup {status.id} ELSE deleted
    /\ prevStatus' = status
    /\ prevOutcome' = outcome
    /\ prevOk' = (should_skip(status, Inst, cfg.filter) = "" /\ ~cfg.dry_run)
    /\ UNCHANGED <<cfg, dl, ops, now, entries, recent, disk, call, ok, pulled>>

(* --------------------------- specifications ---------------------------- *)
\* no process has run yet: empty logs of removals and downloads, no staged file
Fresh ==
    /\ files = FilesFor(hashdb)
    /\ archive = [l \in ArchLocs |-> 0]
    /\ now = 0
    /\ recent = {}
    /\ removed = <<>>
    /\ dlog = <<>>
    /\ tmpfiles = 0
    /\ deleted = {}
    /\ sleeps = 0
    /\ status = NullStatus
    /\ idx = 0
    /\ any_downloaded = FALSE
    /\ staged = NoStaged
    /\ outcome = <<>>
    /\ ok = FALSE
    /\ count = 0
    /\ pulled = 0
    /\ prevStatus = NullStatus
    /\ prevOutcome = <<>>
    /\ prevOk = FALSE
    /\ tries = <<>>
    /\ naps = <<>>
    /\ result = NoResult
    /\ pruned = NoDelete
    /\ crashed = ""
    /\ notfound = {}

InitWith(cfgs, dbs) ==
    /\ cfg \in cfgs
    /\ hashdb \in dbs
    /\ entries = <<>>
    /\ pc = "idle"
    /\ Fresh

\* a record an earlier run stored for content h, found in the log at startup
OldRec(h, c, ts) ==
    [sha256 |-> h, statusid |-> 0, created_at |-> c,
     filepath |-> PathStr(DownloadRootForm, Loc("other", 1, ts, 0)), size |-> SizeOf(h),
     origin_host |-> "cdn.example", origin_group |-> "other",
     account_host |-> "example.social", account_group |-> "other"]

(* the duplicate decision: statuses whose attachments all download *)
DedupCfgs ==
    {Config(p, d, TRUE, ld, TRUE, FALSE, 0, 0) :
        p \in Policies, d \in BOOLEAN, ld \in BOOLEAN}

DedupDbs ==
    {<<>>} \cup {<<EntryLine(OldRec(1, c, 1))>> :
                    c \in {BadCreated, Naive(1)} \cup {Aware(t) : t \in Times}}

\* n image attachments, each with a remote URL
Images(n) == [i \in 1..n |-> Image(((i - 1) % MaxUrl) + 1)]

DedupStatuses ==
    {Status(1, c, 2, FALSE, Images(n)) :
        c \in {NoCreated, Naive(1)} \cup {Aware(t) : t \in Times},
        n \in 1..MaxMedia}

InitDedup == InitWith(DedupCfgs, DedupDbs)

NextDedup ==
    \/ StartRun
    \/ \E st \in DedupStatuses : Pull(st)
    \/ EndFeed
    \/ FilterPass
    \/ \E h \in Hashes : DownloadOk(h)
    \/ Discard
    \/ CompareRaises
    \/ ReplaceArchive
    \/ ReplaceRename
    \/ ReplaceRecord
    \/ ReplaceLog
    \/ StoreRaises
    \/ StorePlace
    \/ StoreRecord
    \/ StoreLog
    \/ Return
    \/ RateSleep
    \/ AfterStatus

SpecDedup == InitDedup /\ [][NextDedup]_vars

(* download failures: statuses stored into an empty store *)
FetchCfgs ==
    {Config("keep_old", d, lr, TRUE, TRUE, FALSE, 0, w) :
        d \in BOOLEAN, lr \in BOOLEAN, w \in {0, 1}}

FetchStatuses ==
    {Status(1, Aware(1), 2, FALSE, Images(n)) : n \in 1..(MaxMedia + 1)}

InitFetch == InitWith(FetchCfgs, {<<>>})

NextFetch ==
    \/ StartRun
    \/ \E st \in FetchStatuses : Pull(st)
    \/ EndFeed
    \/ FilterPass
    \/ SkipCached
    \/ DownloadOk(1)
    \/ DownloadNotFound
    \/ DownloadFailed
    \/ Discard
    \/ StorePlace
    \/ StoreRecord
    \/ StoreLog
    \/ Return
    \/ RateSleep
    \/ AfterStatus

SpecFetch == InitFetch /\ [][NextFetch]_vars

(* ------------------- the content store on its own --------------------- *)
\* JsonlHashDB.delete_by_filepaths: the index afterwards, the log afterwards
delete_by_filepaths(d, paths) == Remaining(d, paths)

delete_log(lines, d, paths) ==
    IF Matching(d, paths) # <<>>
    THEN _rewrite_entries(delete_by_filepaths(d, paths))
    ELSE lines

\* the list delete_by_filepaths returns
delete_returns(d, paths) ==
    [i \in 1..Len(Matching(d, paths)) |-> Matching(d, paths)[i].val]

StoreRecs ==
    {[OldRec(h, Aware(t), t) EXCEPT !.filepath.form = f] :
        h \in Hashes, t \in Times, f \in {"rel", "abs"}}

NullRec == [OldRec(0, NoCreated, 0) EXCEPT !.filepath = NoPath]

StoreLines ==
    {EntryLine(r) : r \in StoreRecs}
        \cup {[kind |-> "garbage", rec |-> NullRec], [kind |-> "nokey", rec |-> NullRec]}

StoreDbs == {<<>>} \cup {<<a>> : a \in StoreLines}
                   \cup {<<a, b>> : a \in StoreLines, b \in StoreLines}

StorePaths == {r.filepath : r \in StoreRecs}

StoreSet(r) ==
    /\ pc = "store"
    /\ Len(hashdb) < MaxLog
    /\ entries' = set(entries, r)
    /\ hashdb' = set_log(hashdb, r)
    /\ pruned' = NoDelete
    /\ UNCHANGED <<cfg, dl, crashed, notfound, now, recent, removed, dlog, files, archive, tmpfiles,
                   deleted, sleeps, pc, call, ok, count, pulled, prev>>

StoreDelete(paths) ==
    /\ pc = "store"
    /\ entries' = delete_by_filepaths(entries, paths)
    /\ hashdb' = delete_log(hashdb, entries, paths)
    /\ pruned' = DeleteCall(paths, delete_returns(entries, paths),
                            IF Matching(entries, paths) # <<>> THEN 1 ELSE 0)
    /\ UNCHANGED <<cfg, dl, crashed, notfound, now, recent, removed, dlog, files, archive, tmpfiles,
                   deleted, sleeps, pc, call, ok, count, pulled, prev>>

\* a later process opens the same log
StoreLoad ==
    /\ pc = "store"
    /\ entries' = _load(hashdb)
    /\ pruned' = NoDelete
    /\ UNCHANGED <<cfg, dl, crashed, notfound, now, recent, disk, deleted, sleeps, pc, call, ok,
                   count, pulled, prev>>

InitStore ==
    /\ cfg = Config("keep_old", FALSE, TRUE, TRUE, TRUE, FALSE, 0, 0)
    /\ hashdb \in StoreDbs
    /\ entries = _load(hashdb)
    /\ pc = "store"
    /\ Fresh

NextStore ==
    \/ \E r \in StoreRecs : StoreSet(r)
    \/ \E paths \in SUBSET StorePaths : StoreDelete(paths)
    \/ StoreLoad

SpecStore == InitStore /\ [][NextStore]_vars

LiveRecords(H) == {i \in 1..Len(entries) : entries[i].val.sha256 = H}

\* C1: after any sequence of load, set and delete_by_filepaths the index holds
\* at most one record per content hash, get returns it, and a set for a hash
\* that is present replaces the record instead of adding one.
C1_OnePerHash ==
    /\ [](\A H \in Hashes :
            /\ Cardinality(LiveRecords(H)) <= 1
            /\ get(entries, H) = {entries[i].val : i \in LiveRecords(H)})
    /\ [][Len(hashdb') = Len(hashdb) + 1 =>
            LET r == hashdb'[Len(hashdb')].rec IN
            /\ get(entries', r.sha256) = {r}
            /\ Len(entries') = IF get(entries, r.sha256) = {}
                               THEN Len(entries) + 1 ELSE Len(entries)]_vars

C1_Witness ==
    /\ Len(hashdb) = 3
    /\ hashdb[1].kind = "entry"
    /\ hashdb[3].kind = "entry"
    /\ hashdb[1].rec.sha256 = hashdb[3].rec.sha256
    /\ hashdb[1].rec # hashdb[3].rec
    /\ get(entries, hashdb[3].rec.sha256) = {hashdb[3].rec}
    /\ Len(entries) = 1

(* ------------------------------ C2 .. C6 ------------------------------- *)
InCall == pc \in {"filter", "media", "dedup", "rep_rename", "rep_record", "rep_log",
                  "new_record", "new_log", "after", "count", "fatal"}

\* the call in hand repeats the previous call: same status, and so far the
\* same content (or none) for every attachment
SameSoFar ==
    /\ InCall
    /\ prevOk
    /\ prevStatus = status
    /\ \A i \in 1..Len(outcome) :
          outcome[i].st # "Pending" =>
              /\ outcome[i].sha = prevOutcome[i].sha
              /\ outcome[i].st # "TransportFailure"

\* C2: a status processed again right after a completed (not dry-run) call,
\* with the same attachment contents, raises nothing, changes no record, no
\* stored file and no log of stored files, and every attachment it downloads
\* is discarded as a duplicate.
C2_Idempotent ==
    [][SameSoFar' =>
          /\ pc' # "fatal"
          /\ entries' = entries
          /\ hashdb' = hashdb
          /\ files' = files
          /\ archive' = archive
          /\ dlog' = dlog
          /\ \A i \in 1..Len(outcome') :
                outcome'[i].sha # 0 =>
                    outcome'[i].st \in Duplicates \cup {"Downloaded"}]_vars

C2_Witness ==
    /\ pc = "after"
    /\ SameSoFar
    /\ \E i \in 1..Len(outcome) :
          /\ outcome[i].st \in Duplicates
          /\ prevOutcome[i].st = "Stored"

C4_DiscardReason ==
    [][(pc = "dedup" /\ outcome'[idx + 1].st \in Duplicates) =>
          LET new == status.created_at
              old == TheExisting.created_at
              reason == outcome'[idx + 1].st
          IN  /\ Existing # {}
              /\ IF ~Parses(new) \/ ~Parses(old) \/ cfg.policy = "database"
                 THEN reason = "duplicate_unknown"
                 ELSE /\ new.t >= old.t
                      /\ cfg.policy = "keep_old" => reason = "duplicate_younger"
                      /\ cfg.policy = "latest" => reason = "duplicate_newer"
              /\ entries' = entries
              /\ hashdb' = hashdb]_vars

C4_Witness ==
    /\ cfg.policy = "database"
    /\ \E i \in 1..Len(outcome) :
          /\ outcome[i].st = "duplicate_unknown"
          /\ Parses(status.created_at)
          /\ DictHas(entries, outcome[i].sha)
          /\ LET e == CHOOSE r \in get(entries, outcome[i].sha) : TRUE
             IN  /\ Parses(e.created_at)
                 /\ Comparable(status.created_at, e.created_at)
                 /\ status.created_at.t < e.created_at.t

\* C5: a download whose hash has no record is stored: the staged file is moved
\* to the destination path and a record with that hash, path and size is
\* inserted, whatever the archive policy and the timestamps.
C5_NewIsStored ==
    [][/\ (pc = "dedup" /\ Existing = {} /\ ~cfg.dry_run) =>
            /\ pc' = "new_record"
            /\ files'[Dst.loc] = staged.sha256
       /\ (pc = "new_record" /\ ~cfg.dry_run) =>
            /\ get(entries', staged.sha256) # {}
            /\ \A e \in get(entries', staged.sha256) :
                  /\ e.filepath = Dst
                  /\ e.size = staged.size]_vars

\* C6: every discard, logged or not, dry-run or not, deletes the staged file and
\* leaves the stored files, the archive and the content store as they were.
C6_DiscardDeletesStaged ==
    [][(pc = "dedup" /\ outcome'[idx + 1].st \in Duplicates) =>
          /\ tmpfiles' = tmpfiles - 1
          /\ staged' = NoStaged
          /\ files' = files
          /\ archive' = archive
          /\ entries' = entries
          /\ hashdb' = hashdb]_vars

C6_Witness ==
    /\ cfg.dry_run
    /\ ~cfg.log_duplicate
    /\ tmpfiles = 0
    /\ pc = "media"
    /\ \E i \in 1..Len(outcome) : outcome[i].st = "duplicate_younger"

(* ------------------------------ C7 .. C10 ------------------------------ *)
Terminal == {"NoUrl", "Cached", "NotFound", "Stored", "Replaced"} \cup Duplicates

\* the step gives the attachment in hand the outcome s
Ends(s) == InLoop /\ outcome'[idx + 1].st = s

C8_NotFoundContinues ==
    \A i \in 1..Len(outcome) :
        outcome[i].st = "NotFound" =>
            /\ \A k \in 1..(i - 1) : outcome[k].st # "Pending"
            /\ pc \in {"media", "dedup", "new_record", "new_log", "rep_rename",
                       "rep_record", "rep_log", "fatal"} =>
                  /\ idx >= i
                  /\ \A j \in (i + 1)..idx : outcome[j].st \in Terminal
            /\ pc = "after" =>
                  \A j \in (i + 1)..Len(outcome) : outcome[j].st \in Terminal

C8_Witness ==
    /\ pc = "after"
    /\ Len(outcome) = 3
    /\ outcome[2].st = "NotFound"
    /\ outcome[3].st = "Stored"

\* C9: a 404 raises nothing, records the failing URL (and only it) in the
\* tracker, appends one media_not_found line without a hash to the removal
\* log exactly when removal logging is on and dry-run is off, writes nothing
\* to the content store and does not count as a download.
C9_NotFoundEffects ==
    /\ [][Ends("NotFound") =>
             /\ pc' = "media"
             /\ recent' = IF cfg.window > 0 THEN recent \cup {CurUrl} ELSE recent
             /\ IF cfg.log_removed /\ ~cfg.dry_run
                THEN /\ Len(removed') = Len(removed) + 1
                     /\ SubSeq(removed', 1, Len(removed)) = removed
                     /\ removed'[Len(removed')].rec.reason = "media_not_found"
                     /\ removed'[Len(removed')].rec.sha256 = 0
                     /\ removed'[Len(removed')].rec.statusid = status.id
                ELSE removed' = removed
             /\ UNCHANGED <<entries, hashdb, dlog, files, archive, tmpfiles,
                            any_downloaded>>]_vars
    /\ []((pc = "after" /\ Len(outcome) = 1 /\ outcome[1].st = "NotFound") => ~ok)

C9_Witness ==
    /\ pc = "after"
    /\ Len(outcome) = 1
    /\ outcome[1].st = "NotFound"
    /\ ~ok
    /\ Len(removed) = 1
    /\ recent = {1}

\* C10: an attachment whose URL the tracker reports as recently missing is
\* skipped: no download, no removal line, no write to the content store, no
\* count as a download, and the next attachment is in hand.
C10_CachedSkip ==
    [][(InLoop /\ CurUrl # 0 /\ cfg.window > 0 /\ CurUrl \in recent) =>
          /\ outcome'[idx + 1].st = "Cached"
          /\ pc' = "media"
          /\ idx' = idx + 1
          /\ UNCHANGED <<entries, recent, disk, any_downloaded, staged>>]_vars

C10_Witness ==
    /\ pc = "after"
    /\ Len(outcome) = 1
    /\ outcome[1].st = "Cached"
    /\ ~ok
    /\ removed = <<>>

(* ------------------------------ C11, C12 ------------------------------- *)
\* the filter: one status per run, every combination of the filter flags
FilterFlags ==
    [include_audio : BOOLEAN, include_gifv : BOOLEAN, include_nsfw : BOOLEAN,
     try_unknown_media : BOOLEAN, include_self : BOOLEAN,
     include_thumbnail_only : BOOLEAN, include_video : BOOLEAN]

FilterCfgs ==
    {[Config("keep_old", d, lr, TRUE, TRUE, FALSE, 0, 0) EXCEPT !.filter = f] :
        d \in BOOLEAN, lr \in BOOLEAN, f \in FilterFlags}

\* attachments: an image, a gifv, an audio, a video, an image with a preview
\* URL only, an image without any URL, an attachment of unknown type whose
\* URL looks like an image and one whose URL does not, one without a type
FilterMedia ==
    {Image(1), Media(1, 0, "gifv"), Media(1, 0, "audio"), Media(1, 0, "video"),
     Media(0, 1, "image"), Media(0, 0, "image"), Media(1, 0, "unknown"),
     Media(2, 0, "unknown"), Media(1, 0, "none")}

FilterMediaLists ==
    {<<>>} \cup {<<a>> : a \in FilterMedia}
           \cup {<<a, b>> : a \in FilterMedia,
                            b \in {Image(1), Media(1, 0, "audio"), Media(0, 1, "image")}}

FilterStatuses ==
    {Status(1, Aware(1), a, s, m) :
        a \in {Inst.account_id, 2}, s \in BOOLEAN, m \in FilterMediaLists}

InitFilter == InitWith(FilterCfgs, {<<>>})

NextFilter ==
    \/ StartRun
    \/ \E st \in FilterStatuses : pulled = 0 /\ Pull(st)
    \/ EndFeed
    \/ FilterSkip
    \/ FilterPass
    \/ SkipNoUrl
    \/ DownloadOk(1)
    \/ Discard
    \/ StorePlace
    \/ StoreRecord
    \/ StoreLog
    \/ Return
    \/ RateSleep
    \/ AfterStatus

SpecFilter == InitFilter /\ [][NextFilter]_vars

\* the type should_skip takes an attachment to have
EffectiveType(m, f) ==
    IF f.try_unknown_media /\ m.type \in {"none", "unknown", "other", ""}
       /\ _looks_like_image(m)
    THEN "image" ELSE m.type

\* the seven checks, in the order of the claim
CheckOrder ==
    <<"self_post", "no_media", "gifv_media", "audio_media", "non_image_media",
      "no_remote_url", "nsfw_filtered">>

CheckFails(c, st, inst, f) ==
    LET M == {st.media[i] : i \in 1..Len(st.media)} IN
    CASE c = "self_post" ->
            ~f.include_self /\ st.account \in {inst.account_id, inst.account_handle} \ {0}
      [] c = "no_media" -> M = {}
      [] c = "gifv_media" ->
            ~f.include_gifv /\ \E m \in M : EffectiveType(m, f) = "gifv"
      [] c = "audio_media" ->
            ~f.include_audio /\ \E m \in M : EffectiveType(m, f) = "audio"
      [] c = "non_image_media" ->
            ~f.include_video
            /\ \E m \in M : EffectiveType(m, f) \notin {"image", "none", "audio"}
      [] c = "no_remote_url" ->
            ~f.include_thumbnail_only /\ \E m \in M : m.remote_url = 0
      [] c = "nsfw_filtered" -> ~f.include_nsfw /\ st.sensitive

FirstFailing(st, inst, f) ==
    LET failing == {k \in 1..Len(CheckOrder) : CheckFails(CheckOrder[k], st, inst, f)}
    IN  IF failing = {} THEN ""
        ELSE CheckOrder[CHOOSE k \in failing : \A j \in failing : k <= j]

Rejected == FirstFailing(status, Inst, cfg.filter) # ""

\* C11: a status the filter rejects is short-circuited: no attachment is
\* looked up in the tracker or downloaded, the content store, the download
\* log and the files stay as they were, one removal line with the filter
\* reason, no hash and no classification labels is appended exactly when
\* removal logging is on and dry-run is off, and process_status returns False.
C11_FilteredShortCircuits ==
    /\ [][(pc = "filter" /\ Rejected) =>
             /\ pc' = "after"
             /\ ~ok'
             /\ UNCHANGED <<entries, recent, hashdb, dlog, files, archive, tmpfiles,
                            call>>
             /\ IF cfg.log_removed /\ ~cfg.dry_run
                THEN /\ Len(removed') = Len(removed) + 1
                     /\ SubSeq(removed', 1, Len(removed)) = removed
                     /\ LET r == removed'[Len(removed')].rec IN
                        /\ r.reason = FirstFailing(status, Inst, cfg.filter)
                        /\ r.sha256 = 0
                        /\ r.statusid = status.id
                        /\ r.origin_host = "" /\ r.origin_group = ""
                        /\ r.account_host = "" /\ r.account_group = ""
                ELSE removed' = removed]_vars
    /\ []((pc \in {"after", "count"} /\ Rejected) =>
             /\ ~ok
             /\ \A i \in 1..Len(outcome) : outcome[i].st = "Pending")

C11_Witness ==
    /\ pc = "after"
    /\ Rejected
    /\ Len(status.media) = 2
    /\ Len(removed) = 1
    /\ removed[1].rec.reason = "nsfw_filtered"
    /\ removed[1].rec.sha256 = 0

\* C12: should_skip gives the reason of the first failing check in the order
\* self_post, no_media, gifv_media, audio_media, non_image_media,
\* no_remote_url, nsfw_filtered, and lets the status pass exactly when no check
\* fails; a status of the instance's own account with an audio attachment
\* (include_audio off) is skipped as self_post.
C12_FirstFailingCheck ==
    /\ [](pc = "filter" =>
            should_skip(status, Inst, cfg.filter) = FirstFailing(status, Inst, cfg.filter))
    /\ [][pc = "filter" =>
            IF Rejected
            THEN /\ pc' = "after"
                 /\ (cfg.log_removed /\ ~cfg.dry_run) =>
                       removed'[Len(removed')].rec.reason =
                           FirstFailing(status, Inst, cfg.filter)
            ELSE pc' = "media"]_vars

C12_Witness ==
    /\ pc = "after"
    /\ status.account = Inst.account_id
    /\ status.media = <<Media(1, 0, "audio")>>
    /\ ~cfg.filter.include_audio
    /\ ~cfg.filter.include_self
    /\ Len(removed) = 1
    /\ removed[1].rec.reason = "self_post"

(* ------------------------------ C13 .. C16 ----------------------------- *)
\* one run of run_instance over a feed of distinct posts
RunCfgs ==
    {[Config("keep_old", d, TRUE, TRUE, TRUE, ub, lim, w)
        EXCEPT !.unbookmark_override = o, !.filter.include_thumbnail_only = TRUE] :
        d \in BOOLEAN, ub \in BOOLEAN, o \in {"none", "true", "false"},
        lim \in 0..MaxPulls, w \in {0, 1}}

\* the store is empty, or holds content 1 from a later post
RunDbs == {<<>>, <<EntryLine(OldRec(1, Aware(MaxTime), 1))>>}

\* a post of the instance's own account, a post whose attachment has no URL,
\* a post with one image and a post with two
RunStatuses ==
    {Status(i, Aware(1), a, FALSE, m) :
        i \in 1..MaxPulls,
        a \in {Inst.account_id, 2},
        m \in {<<Media(0, 0, "image")>>, Images(1), Images(2)}}

InitRun == InitWith(RunCfgs, RunDbs)

NextRun ==
    \/ pulled = 0 /\ StartRun
    \/ \E st \in RunStatuses : st.id = pulled + 1 /\ Pull(st)
    \/ EndFeed
    \/ FilterSkip
    \/ FilterPass
    \/ SkipNoUrl
    \/ SkipCached
    \/ DownloadOk(1)
    \/ DownloadNotFound
    \/ DownloadFailed
    \/ Discard
    \/ ReplaceArchive
    \/ ReplaceRename
    \/ ReplaceRecord
    \/ ReplaceLog
    \/ StorePlace
    \/ StoreRecord
    \/ StoreLog
    \/ Return
    \/ RateSleep
    \/ AfterStatus

SpecRun == InitRun /\ [][NextRun]_vars

\* the attachment was downloaded (whatever became of the file afterwards)
WasDownloaded(o) == o.st \in {"Stored", "Replaced"} \cup Duplicates

\* C13: process_status returns True exactly when the download of at least one
\* attachment succeeded, also when the file was then discarded as a duplicate
\* or replaced an older one; it returns False for a filtered status and for
\* one whose attachments all had no URL, were suppressed or answered 404.
C13_TrueIffDownloaded ==
    (pc \in {"after", "count"}) =>
        /\ ok <=> \E i \in 1..Len(outcome) : WasDownloaded(outcome[i])
        /\ Rejected => (~ok /\ \A i \in 1..Len(outcome) : outcome[i].st = "Pending")
        /\ ~Rejected => \A i \in 1..Len(outcome) : outcome[i].st \in Terminal
        /\ (\A i \in 1..Len(outcome) : outcome[i].st \in {"NoUrl", "Cached", "NotFound"})
              => ~ok

C13_Witness ==
    /\ pc = "after"
    /\ ok
    /\ Len(outcome) = 2
    /\ outcome[1].st = "NotFound"
    /\ outcome[2].st \in Duplicates

\* C14: for every post run_instance processes, delete_bookmark(id) is called
\* exactly when process_status returned True, unbookmarking is on for the
\* instance (its override when set, the global flag otherwise) and dry-run is
\* off; and only once the post's processing and rate sleep are over.
C14_UnbookmarkIffDownloaded ==
    /\ [][pc = "count" =>
            LET enabled == IF cfg.unbookmark_override = "none" THEN cfg.unbookmark
                           ELSE cfg.unbookmark_override = "true"
            IN  (status.id \in deleted') <=> (ok /\ enabled /\ ~cfg.dry_run)]_vars
    /\ [][deleted' # deleted => (pc = "count" /\ deleted' = deleted \cup {status.id})]_vars

\* C15: run_instance sleeps once after each status for which process_status
\* returned True, however many attachments it downloaded, and not after one
\* for which it returned False; the sleep comes before the status is
\* unbookmarked and before the next one is pulled.
C15_OneSleepPerDownloadedStatus ==
    /\ [][pc = "after" => /\ pc' = "count"
                          /\ sleeps' = IF ok THEN sleeps + 1 ELSE sleeps
                          /\ UNCHANGED <<deleted, pulled, count>>]_vars
    /\ [][sleeps' # sleeps => pc = "after"]_vars
    /\ [][pc' = "count" => pc = "after"]_vars
    /\ [][(deleted' # deleted \/ count' = count + 1) => pc = "count"]_vars
    /\ [][pulled' # pulled => pc = "pull"]_vars
    /\ [][(pc' = "pull" /\ pc # "pull") => pc \in {"count", "idle"}]_vars

C15_Witness ==
    /\ pc = "count"
    /\ pulled = 2
    /\ ~ok
    /\ sleeps = 1
    /\ Len(prevOutcome) = 2
    /\ \A i \in 1..2 : prevOutcome[i].st = "Stored"

AttemptErrors == {"Timeout", "HTTP 404", "HTTP 500"}

Attempt(good, v) == [ok |-> good, val |-> v]

\* for i in range(attempts): the loop has another round
InRetryLoop == pc = "dl_loop" /\ Len(tries) < cfg.max_attempts

\* _attempt_download returns (path, sha256, size) of the temp file it made:
\* returned as it is
AttemptSucceeds(h) ==
    /\ InRetryLoop
    /\ tries' = Append(tries, Attempt(TRUE, Returned(h)))
    /\ result' = [kind |-> "returned", val |-> Returned(h)]
    /\ tmpfiles' = tmpfiles + 1
    /\ pc' = "dl_done"
    /\ UNCHANGED <<cfg, ops, naps, now, entries, recent, hashdb, removed, dlog, files,
                   archive, deleted, sleeps, call, ok, count, pulled, prev>>

\* _attempt_download raises e: the except clause is entered. An HTTP error
\* status is raised before the temp file is made; a timeout or connection
\* error comes before it (streamed = FALSE) or while the body is read into
\* it (streamed = TRUE), and then the file, made with delete=False, stays
AttemptRaises(e, streamed) ==
    /\ InRetryLoop
    /\ streamed => e = "Timeout"
    /\ tries' = Append(tries, Attempt(FALSE, Raised(e)))
    /\ tmpfiles' = IF streamed THEN tmpfiles + 1 ELSE tmpfiles
    /\ pc' = "dl_except"
    /\ UNCHANGED <<cfg, ops, naps, result, now, entries, recent, hashdb, removed, dlog,
                   files, archive, deleted, sleeps, call, ok, count, pulled, prev>>

\* mutant: the sleep before the test for the final attempt
GiveUpAfterSleep ==
    /\ pc = "dl_except"
    /\ Len(tries) >= cfg.max_attempts
    /\ naps' = Append(naps, IF cfg.retry_rate_control THEN "rate" ELSE "retry")
    /\ result' = [kind |-> "raised", val |-> tries[Len(tries)].val]
    /\ pc' = "dl_done"
    /\ UNCHANGED <<cfg, ops, tries, now, entries, recent, disk, deleted, sleeps, call,
                   ok, count, pulled, prev>>

\* 27-28: if i + 1 >= attempts: raise
GiveUp ==
    /\ pc = "dl_except"
    /\ Len(tries) >= cfg.max_attempts
    /\ result' = [kind |-> "raised", val |-> tries[Len(tries)].val]
    /\ pc' = "dl_done"
    /\ UNCHANGED <<cfg, ops, tries, naps, now, entries, recent, disk, deleted, sleeps,
                   call, ok, count, pulled, prev>>

\* 31-34: sleep the rate-control delay or the retry delay, then the next round
RetrySleep ==
    /\ pc = "dl_except"
    /\ Len(tries) < cfg.max_attempts
    /\ naps' = Append(naps, IF cfg.retry_rate_control THEN "rate" ELSE "retry")
    /\ pc' = "dl_loop"
    /\ UNCHANGED <<cfg, ops, tries, result, now, entries, recent, disk, deleted, sleeps,
                   call, ok, count, pulled, prev>>

\* 36-39: the loop ends without a return or a raise (max_attempts <= 0)
LoopExhausted ==
    /\ pc = "dl_loop"
    /\ Len(tries) >= cfg.max_attempts
    /\ result' = [kind |-> "raised",
                  val |-> IF tries = <<>> THEN Raised("RuntimeError")
                          ELSE tries[Len(tries)].val]
    /\ pc' = "dl_done"
    /\ UNCHANGED <<cfg, ops, tries, naps, now, entries, recent, disk, deleted, sleeps,
                   call, ok, count, pulled, prev>>

DownloadCfgs ==
    {[Config("keep_old", FALSE, TRUE, TRUE, TRUE, FALSE, 0, 0)
        EXCEPT !.max_attempts = n, !.retry_rate_control = rc] :
        n \in 0..MaxAttempts, rc \in BOOLEAN}

InitDownload ==
    /\ cfg \in DownloadCfgs
    /\ hashdb = <<>>
    /\ entries = <<>>
    /\ pc = "dl_loop"
    /\ Fresh

NextDownload ==
    \/ \E h \in Hashes : AttemptSucceeds(h)
    \/ \E e \in AttemptErrors, streamed \in BOOLEAN : AttemptRaises(e, streamed)
    \/ GiveUp
    \/ RetrySleep
    \/ LoopExhausted

\* the call is not suspended for ever: every attempt and every sleep ends
SpecDownload == InitDownload /\ [][NextDownload]_vars /\ WF_vars(NextDownload)

\* C17: with max_attempts = N >= 1 the attempts follow one another until the
\* first success, whose value is returned as it is, or until N have failed,
\* when the error of the last one is raised; there is one sleep between two
\* consecutive attempts and none after the last, of the rate-control delay
\* when retry.rate_control is set and of the retry delay otherwise; the call
\* ends after at most N attempts and N - 1 sleeps.
C17_RetriesThenRaises ==
    /\ [](cfg.max_attempts >= 1 =>
            /\ Len(tries) <= cfg.max_attempts
            /\ Len(naps) <= cfg.max_attempts - 1
            /\ \A i \in 1..(Len(tries) - 1) : ~tries[i].ok
            /\ Len(naps) = IF pc = "dl_loop" THEN Len(tries) ELSE Len(tries) - 1
            /\ \A i \in 1..Len(naps) :
                  naps[i] = IF cfg.retry_rate_control THEN "rate" ELSE "retry"
            /\ pc = "dl_done" =>
                  IF tries[Len(tries)].ok
                  THEN /\ result.kind = "returned"
                       /\ result.val = tries[Len(tries)].val
                  ELSE /\ Len(tries) = cfg.max_attempts
                       /\ result.kind = "raised"
                       /\ result.val = tries[Len(tries)].val
            /\ pc # "dl_done" => result.kind = "none")
    /\ <>(pc = "dl_done")

C17_Witness ==
    /\ pc = "dl_done"
    /\ cfg.max_attempts = 3
    /\ ~cfg.retry_rate_control
    /\ Len(tries) = 3
    /\ result.kind = "returned"
    /\ naps = <<"retry", "retry">>

(* ------------------------------ C18 .. C20 ----------------------------- *)
\* the tracker: runs that start at any time over a removal log earlier runs
\* wrote, and whose downloads all answer 404
TrackerCfgs ==
    {Config("keep_old", FALSE, TRUE, TRUE, TRUE, FALSE, 0, w) : w \in (0 - 1)..2}

NotFoundRec(t, m) ==
    RemovedRec(t, 0, Status(1, Aware(1), 2, FALSE, m), "media_not_found",
               "cdn.example", "other", "example.social", "other")

\* lines of the removal log: media_not_found lines of any time, a line with
\* another reason, a line whose time is missing or malformed ("notime"), a
\* line that is not JSON ("garbage") and one that is JSON but no object
TrackerLines ==
    {EntryLine(NotFoundRec(t, Images(1))) : t \in 0..MaxClock}
        \cup {EntryLine(NotFoundRec(1, Images(2))),
              EntryLine([NotFoundRec(MaxClock - 1, Images(1))
                            EXCEPT !.reason = "duplicate_younger", !.sha256 = 1]),
              [kind |-> "notime", rec |-> NotFoundRec(0, Images(1))],
              [kind |-> "garbage", rec |-> NotFoundRec(0, <<>>)],
              [kind |-> "nonobject", rec |-> NotFoundRec(0, <<>>)]}

TrackerLogs ==
    {<<>>} \cup {<<a>> : a \in TrackerLines}
           \cup {<<a, b>> : a \in TrackerLines, b \in TrackerLines}

TrackerStatuses == {Status(1, Aware(1), 2, FALSE, Images(n)) : n \in 1..2}

InitTracker ==
    /\ cfg \in TrackerCfgs
    /\ hashdb = <<>>
    /\ entries = <<>>
    /\ pc = "idle"
    /\ files = FilesFor(hashdb)
    /\ archive = [l \in ArchLocs |-> 0]
    /\ now \in 0..MaxClock
    /\ removed \in TrackerLogs
    /\ recent = {}
    /\ dlog = <<>>
    /\ tmpfiles = 0
    /\ deleted = {}
    /\ sleeps = 0
    /\ status = NullStatus
    /\ idx = 0
    /\ any_downloaded = FALSE
    /\ staged = NoStaged
    /\ outcome = <<>>
    /\ ok = FALSE
    /\ count = 0
    /\ pulled = 0
    /\ prevStatus = NullStatus
    /\ prevOutcome = <<>>
    /\ prevOk = FALSE
    /\ tries = <<>>
    /\ naps = <<>>
    /\ result = NoResult
    /\ pruned = NoDelete
    /\ crashed = ""
    /\ notfound = {}

NextTracker ==
    \/ StartRun
    \/ StartRunRaises
    \/ Tick
    \/ \E st \in TrackerStatuses : Pull(st)
    \/ EndFeed
    \/ FilterPass
    \/ SkipCached
    \/ DownloadNotFound
    \/ Return
    \/ RateSleep
    \/ AfterStatus

SpecTracker == InitTracker /\ [][NextTracker]_vars

\* the step constructs the tracker of a run
Constructs == pc \in {"idle", "fatal"} /\ pc' = "pull"

\* the removal log lists u in a media_not_found line whose time is in [lo, hi]
ListedWithin(u, lo, hi) ==
    \E k \in 1..Len(removed) :
        /\ removed[k].kind = "entry"
        /\ removed[k].rec.reason = "media_not_found"
        /\ \E j \in 1..Len(removed[k].rec.media_urls) : removed[k].rec.media_urls[j] = u
        /\ lo <= removed[k].rec.time
        /\ removed[k].rec.time <= hi

\* the removal log lists u in a media_not_found line whose time is lo or later
ListedSince(u, lo) ==
    \E k \in 1..Len(removed) :
        /\ removed[k].kind = "entry"
        /\ removed[k].rec.reason = "media_not_found"
        /\ \E j \in 1..Len(removed[k].rec.media_urls) : removed[k].rec.media_urls[j] = u
        /\ lo <= removed[k].rec.time

\* C18 as amended: right after an enabled tracker is constructed,
\* should_skip(u) is true exactly when the removal log has a media_not_found
\* line that lists u and whose time t satisfies t >= now - window; a line
\* with another reason, without a readable time or older than that
\* contributes nothing, and a line dated after now is kept like any other.
C18_LoadedSinceCutoff ==
    [][(Constructs /\ cfg.window > 0) =>
          /\ recent' = {u \in Urls : ListedSince(u, now - cfg.window)}
          /\ \A u \in Urls :
                tracker_should_skip(recent', cfg.window, u)
                    <=> ListedSince(u, now - cfg.window)]_vars

C18_Witness ==
    /\ pc = "pull"
    /\ pulled = 0
    /\ cfg.window = 1
    /\ now = MaxClock
    /\ Len(removed) = 2
    /\ removed[1] = EntryLine(NotFoundRec(1, Images(2)))
    /\ removed[2] = EntryLine(NotFoundRec(MaxClock - 1, Images(1)))
    /\ recent = {1}

\* C18 as claimed: right after an enabled tracker is constructed,
\* should_skip(u) is true exactly when the removal log has a media_not_found
\* line that lists u and whose time t satisfies now - window <= t <= now.
C18_LoadedWithinWindow ==
    [][(Constructs /\ cfg.window > 0) =>
          \A u \in Urls :
              tracker_should_skip(recent', cfg.window, u)
                  <=> ListedWithin(u, now - cfg.window, now)]_vars

\* C19: with a window that is absent, zero or negative the tracker is off for
\* the whole run: constructing it does not read the removal log (a line that
\* an enabled tracker cannot read does no harm), its map stays empty whatever
\* is recorded, and no URL is ever suppressed.
C19_DisabledTracker ==
    /\ [](cfg.window <= 0 =>
            /\ recent = {}
            /\ pc # "fatal"
            /\ \A u \in Urls \cup {0} : ~tracker_should_skip(recent, cfg.window, u)
            /\ \A i \in 1..Len(outcome) : outcome[i].st # "Cached")
    /\ [][(cfg.window <= 0 /\ pc \in {"idle", "fatal"} /\ pc' # pc) => pc' = "pull"]_vars

C19_Witness ==
    /\ cfg.window < 0
    /\ pc = "after"
    /\ pulled = 2
    /\ prevStatus = status
    /\ prevOutcome = <<Out("NotFound", 0)>>
    /\ outcome = <<Out("NotFound", 0)>>
    /\ removed[1].kind = "entry"
    /\ removed[1].rec.reason = "media_not_found"
    /\ removed[1].rec.time = now
    /\ removed[2].kind = "nonobject"

\* C20: within a run of an enabled tracker a URL is suppressed exactly when it
\* is in the map, and the map only grows: a URL loaded at construction or
\* recorded after a 404 stays suppressed however much time passes, and a URL
\* is suppressed from the moment it is recorded.
C20_SuppressedForTheRun ==
    /\ [][(cfg.window > 0 /\ ~Constructs) =>
             /\ recent \subseteq recent'
             /\ \A u \in Urls : tracker_should_skip(recent, cfg.window, u) =>
                                   tracker_should_skip(recent', cfg.window, u)]_vars
    /\ [][(cfg.window > 0 /\ Ends("NotFound")) =>
             /\ CurUrl \in recent'
             /\ tracker_should_skip(recent', cfg.window, CurUrl)]_vars
    /\ [][(cfg.window > 0 /\ InLoop /\ outcome'[idx + 1].st # "Pending") =>
             (outcome'[idx + 1].st = "Cached" <=> CurUrl \in recent)]_vars

C20_Witness ==
    /\ cfg.window = 1
    /\ pc = "after"
    /\ outcome = <<Out("Cached", 0)>>
    /\ Len(removed) = 1
    /\ removed[1].kind = "entry"
    /\ removed[1].rec.reason = "media_not_found"
    /\ now - removed[1].rec.time > cfg.window

(* ------------------------------- C21 ----------------------------------- *)
\* the files the last delete_by_filepaths call was given, whatever their spelling
DeleteTargets == {p.loc : p \in pruned.paths}

DeleteHits(r) == r.filepath.form # "none" /\ r.filepath.loc \in DeleteTargets

\* C21: delete_by_filepaths removes exactly the records whose file is one of
\* the files the given paths name, relative and absolute spellings alike,
\* returns exactly those records, leaves the other records as they were, and
\* rewrites the content log once from the remaining records when a record
\* was removed; when no record matches, index and log are left as they were.
C21_DeleteByFilepaths ==
    [][pruned'.called =>
        LET hit(s) == DeleteHits(s.val)'
            gone == SelectSeq(entries, hit)
            kept == SelectSeq(entries, LAMBDA s : ~hit(s))
        IN  /\ entries' = kept
            /\ pruned'.ret = [i \in 1..Len(gone) |-> gone[i].val]
            /\ IF gone # <<>>
               THEN /\ pruned'.rewrites = 1
                    /\ hashdb' = [i \in 1..Len(kept) |-> EntryLine(kept[i].val)]
               ELSE /\ pruned'.rewrites = 0
                    /\ hashdb' = hashdb
                    /\ entries' = entries]_vars

\* a call given both spellings of one file removed the one record of that file,
\* stored under the other spelling than the one a second record has, and left
\* the second record
C21_Witness ==
    /\ pruned.called
    /\ Len(pruned.ret) = 1
    /\ pruned.rewrites = 1
    /\ PathStr("rel", pruned.ret[1].filepath.loc) \in pruned.paths
    /\ PathStr("abs", pruned.ret[1].filepath.loc) \in pruned.paths
    /\ Len(entries) = 1
    /\ hashdb = <<EntryLine(entries[1].val)>>

(* ------------------------------- C22 ----------------------------------- *)
WellFormed(lines) == SelectSeq(lines, LAMBDA l : l.kind = "entry")

\* C22: constructing the content store and the tracker never fails because
\* of what the logs hold: the run starts, and index and tracker hold what the
\* well-formed lines give, every other line being skipped.
C22_ConstructionNeverFails ==
    [][(pc' # pc /\ pc \in {"idle", "fatal"}) =>
        /\ pc' = "pull"
        /\ entries' = _load(WellFormed(hashdb))
        /\ recent' = Tracker(WellFormed(removed), now, cfg.window)]_vars

(* -------------- prune_downloads.py and a killed process ---------------- *)
\* prune_downloads._normalize_target: an absolute path under the download root
_normalize_target(l) == PathStr("abs", l)

\* mutant: the targets are unlinked, the store is left as it is
PruneFilesOnly(ls) ==
    /\ pc = "idle"
    /\ entries' = _load(hashdb)
    /\ pruned' = DeleteCall({_normalize_target(l) : l \in ls}, <<>>, 0)
    /\ files' = [l \in Locs |-> IF l \in ls THEN 0 ELSE files[l]]
    /\ UNCHANGED <<cfg, dl, crashed, notfound, now, recent, hashdb, removed, dlog, archive,
                   tmpfiles, deleted, sleeps, pc, call, ok, count, pulled, prev>>

\* prune_downloads.main: a process of its own, run while no fetch is running;
\* it loads the content log, deletes the records of the targets (rewriting
\* the log when one matched) and unlinks every target
Prune(ls) ==
    /\ pc = "idle"
    /\ LET d == _load(hashdb)
           targets == {_normalize_target(l) : l \in ls}
       IN  /\ entries' = delete_by_filepaths(d, targets)
           /\ hashdb' = delete_log(hashdb, d, targets)
           /\ pruned' = DeleteCall(targets, delete_returns(d, targets),
                                   IF Matching(d, targets) # <<>> THEN 1 ELSE 0)
    /\ files' = [l \in Locs |-> IF l \in ls THEN 0 ELSE files[l]]
    /\ UNCHANGED <<cfg, dl, crashed, notfound, now, recent, removed, dlog, archive, tmpfiles,
                   deleted, sleeps, pc, call, ok, count, pulled, prev>>

\* the positions of a run, between the start of run_instance and its end
RunPcs == {"pull", "filter", "media", "dedup", "rep_rename", "rep_record", "rep_log",
           "new_record", "new_log", "after", "count"}

\* the process is killed: what it held in memory is gone, the disk stays;
\* a process_status call that was under way is the previous call from now
\* on, and did not complete
Crash ==
    /\ pc \in RunPcs
    /\ crashed = ""
    /\ crashed' = pc
    /\ pc' = "idle"
    /\ IF pc = "pull"
       THEN UNCHANGED prev
       ELSE /\ prevStatus' = status
            /\ prevOutcome' = outcome
            /\ prevOk' = FALSE
    /\ UNCHANGED <<cfg, dl, pruned, notfound, now, entries, recent, disk, deleted,
                   sleeps, call, ok, count, pulled>>

(* runs and prunes one after the other: a store that is empty or holds
   content 1 from a later post, posts of one or two images *)
LifeCfgs == {Config("keep_old", FALSE, TRUE, TRUE, ae, FALSE, 0, 0) : ae \in BOOLEAN}

LifeStatuses ==
    {Status(1, Aware(t), 2, FALSE, Images(n)) : t \in Times, n \in 1..MaxMedia}

InitLife == InitWith(LifeCfgs, RunDbs)

\* the target on the command line
PruneArgs == {{l} : l \in Locs}

Pipeline ==
    \/ StartRun
    \/ \E st \in LifeStatuses : Pull(st)
    \/ EndFeed
    \/ FilterPass
    \/ \E h \in Hashes : DownloadOk(h)
    \/ Discard
    \/ ReplaceArchive
    \/ ReplaceRename
    \/ ReplaceRecord
    \/ ReplaceLog
    \/ StorePlace
    \/ StoreRecord
    \/ StoreLog
    \/ Return
    \/ RateSleep
    \/ AfterStatus

NextLife ==
    \/ Pipeline
    \/ \E ls \in PruneArgs : Prune(ls)

SpecLife == InitLife /\ [][NextLife]_vars

(* ------------------------------- C23 ----------------------------------- *)
\* the step is a call of JsonlHashDB.set
IsSet == pc \in {"new_record", "rep_record"} /\ ~cfg.dry_run

\* C23: the durable logs are append-only. No step removes or changes a line
\* of the removal log, which grows by one whole record at a time; every set,
\* insert or replace, appends exactly one line to the content log, the
\* snapshot of the record set; and the content log changes otherwise only
\* when delete_by_filepaths rewrites it, which leaves the removal log alone.
C23_AppendOnlyLogs ==
    [][/\ \/ removed' = removed
          \/ /\ Len(removed') = Len(removed) + 1
             /\ SubSeq(removed', 1, Len(removed)) = removed
             /\ removed'[Len(removed')].kind = "entry"
       /\ IF IsSet
          THEN /\ Len(hashdb') = Len(hashdb) + 1
               /\ SubSeq(hashdb', 1, Len(hashdb)) = hashdb
               /\ get(entries', staged.sha256) = {hashdb'[Len(hashdb')].rec}
          ELSE hashdb' # hashdb =>
                 /\ pc = "idle"
                 /\ pruned'.rewrites = 1
                 /\ hashdb' = _rewrite_entries(entries')
                 /\ removed' = removed]_vars

\* a record was replaced (a second line for its hash was appended), a later
\* duplicate was logged to the removal log, and a prune then rewrote the
\* content log without the record
C23_Witness ==
    /\ pruned.rewrites = 1
    /\ Len(pruned.ret) = 1
    /\ pruned.ret[1].created_at = Aware(1)
    /\ pruned.ret[1].statusid = 0
    /\ hashdb = <<>>
    /\ Len(removed) = 1
    /\ removed[1].rec.reason = "duplicate_younger"

(* ------------------------------- C24 ----------------------------------- *)
\* the steps of replace_existing
InReplace == (pc = "dedup" /\ pc' = "rep_rename") \/ pc \in {"rep_rename", "rep_record", "rep_log"}

\* the record of hash H differs between index d and index e at most in the
\* creation timestamp and the four classification labels; no other slot differs
OnlyMetadataChanged(d, e, H) ==
    /\ Len(e) = Len(d)
    /\ \A i \in 1..Len(d) :
          /\ e[i].key = d[i].key
          /\ IF d[i].key = H
             THEN e[i].val = [d[i].val EXCEPT !.created_at = e[i].val.created_at,
                                             !.origin_host = e[i].val.origin_host,
                                             !.origin_group = e[i].val.origin_group,
                                             !.account_host = e[i].val.account_host,
                                             !.account_group = e[i].val.account_group]
             ELSE e[i].val = d[i].val

\* what the steps of a replace do to the index; `appends` tells whether the
\* update of the record appends its snapshot to the content log
ReplaceFrame(appends) ==
    InReplace =>
        IF pc = "rep_record"
        THEN /\ get(entries, staged.sha256) # {}
             /\ OnlyMetadataChanged(entries, entries', staged.sha256)
             /\ \A e \in get(entries', staged.sha256) :
                   /\ e.created_at = status.created_at
                   /\ hashdb' = IF appends THEN Append(hashdb, EntryLine(e)) ELSE hashdb
        ELSE UNCHANGED <<entries, hashdb>>

\* C24 as stated: a Replaced outcome changes, in the record of that hash, only
\* the creation timestamp (to the new post's) and the four classification
\* labels, changes no other record, and appends exactly one snapshot line of
\* the record to the content log.
C24_ReplacedAppendsSnapshot == [][ReplaceFrame(TRUE)]_vars

\* C24 amended: the same, but the snapshot line is appended only when dry-run
\* is off; with dry-run the content log is not written.
C24_ReplacedFrame == [][ReplaceFrame(~cfg.dry_run)]_vars

\* a replace has updated the record: the log holds the old line and the
\* snapshot, alike but for the timestamp and the labels
C24_Witness ==
    /\ pc = "rep_log"
    /\ ~cfg.dry_run
    /\ Len(hashdb) = 2
    /\ hashdb[2].rec = TheExisting
    /\ hashdb[2].rec.created_at = status.created_at
    /\ hashdb[1].rec.created_at # status.created_at
    /\ hashdb[2].rec.filepath = hashdb[1].rec.filepath
    /\ hashdb[2].rec.statusid # status.id

(* ------------------------------- C25 ----------------------------------- *)
\* C25: in a replace without dry-run the superseded file is first disposed of
\* by the archive policy (moved under the archive root, or deleted when
\* archiving is disabled) while the staged file still waits; only then is the
\* staged file renamed into the stored path; when the replace completes the
\* stored path holds the downloaded content and no staged file remains.
C25_ArchiveBeforeRename ==
    /\ [](~cfg.dry_run =>
            /\ pc = "rep_rename" => files[OldLoc] = 0 /\ tmpfiles = 1
            /\ pc \in {"rep_record", "rep_log"} =>
                  files[OldLoc] = staged.sha256 /\ tmpfiles = 0)
    /\ [][~cfg.dry_run =>
            /\ (pc = "dedup" /\ pc' = "rep_rename") =>
                  /\ files[OldLoc] # 0
                  /\ files' = [files EXCEPT ![OldLoc] = 0]
                  /\ archive' = IF cfg.archive_enabled
                                THEN [archive EXCEPT ![OldLoc] = files[OldLoc]]
                                ELSE archive
                  /\ tmpfiles' = tmpfiles
            /\ pc = "rep_rename" =>
                  /\ files' = [files EXCEPT ![OldLoc] = staged.sha256]
                  /\ archive' = archive
            /\ pc = "rep_log" =>
                  /\ outcome'[idx + 1] = Out("Replaced", staged.sha256)
                  /\ files'[OldLoc] = staged.sha256
                  /\ tmpfiles' = 0]_vars

\* a replace has completed with archiving enabled: the old file is under the
\* archive root and the stored path holds the new download
C25_Witness ==
    /\ ~cfg.dry_run
    /\ cfg.archive_enabled
    /\ \E i \in 1..Len(outcome) :
          /\ outcome[i].st = "Replaced"
          /\ \E e \in get(entries, outcome[i].sha) :
                /\ files[e.filepath.loc] = outcome[i].sha
                /\ archive[e.filepath.loc] = outcome[i].sha
    /\ tmpfiles = 0
    /\ pc = "media"

(* ----------------- a run that is killed, and the next run -------------- *)
\* the store holds content 1 from a later post, its path spelled as the
\* download root is or absolutely
CrashDbs ==
    {<<EntryLine([OldRec(1, Aware(MaxTime), 1) EXCEPT !.filepath.form = f])>> :
        f \in {"rel", "abs"}}

CrashStatuses == {Status(1, Aware(t), 2, FALSE, Images(1)) : t \in Times}

InitCrash == InitWith(LifeCfgs, CrashDbs)

NextCrash ==
    \/ StartRun
    \/ \E st \in CrashStatuses : Pull(st)
    \/ EndFeed
    \/ FilterPass
    \/ \E h \in Hashes : DownloadOk(h)
    \/ Discard
    \/ ReplaceArchive
    \/ ReplaceRename
    \/ ReplaceRecord
    \/ ReplaceLog
    \/ StorePlace
    \/ StoreRecord
    \/ StoreLog
    \/ Return
    \/ RateSleep
    \/ AfterStatus
    \/ Crash

SpecCrash == InitCrash /\ [][NextCrash]_vars

(* ------------------------------- C26 ----------------------------------- *)
\* C26: move_to_archive on a stored file. With archiving disabled the file
\* is deleted and nothing appears under the archive root; with archiving
\* enabled the file ends under the archive root at its path relative to the
\* download root and is gone from its original path; on a path with no file
\* nothing changes. (The store's files all lie inside the download root.)
C26_MoveToArchive ==
    [][(pc = "dedup" /\ pc' = "rep_rename") =>
        IF files[OldLoc] = 0
        THEN UNCHANGED <<files, archive>>
        ELSE /\ files' = [files EXCEPT ![OldLoc] = 0]
             /\ archive' = IF cfg.archive_enabled
                           THEN [archive EXCEPT ![OldLoc] = files[OldLoc]]
                           ELSE archive]_vars

(* ------------------------------- C27 ----------------------------------- *)
\* the fetch of attachment i of the status in hand succeeded and was settled
Settled(i) == outcome[i].st \in Duplicates \cup {"Replaced", "Stored"}

\* C27: after a crash in a replace, between the disposal of the old file and
\* the rename of the staged one, the next run recovers: once a fetch of that
\* content has succeeded and been settled, there is exactly one record of the
\* hash and its filepath holds a file with that content.
C27_RepopulatedOnNextFetch ==
    crashed = "rep_rename" =>
        \A i \in 1..Len(outcome) :
            Settled(i) =>
                /\ Cardinality(LiveRecords(outcome[i].sha)) = 1
                /\ \A e \in get(entries, outcome[i].sha) :
                      files[e.filepath.loc] = outcome[i].sha

(* ------------------------------- C28 ----------------------------------- *)
\* C28: with dry-run set no step of a run changes durable state: the content
\* log, the removal log and the download log get no line, no file appears,
\* moves or disappears under the download root or the archive root, and no
\* bookmark is deleted.
C28_DryRunLeavesDiskAlone ==
    [][cfg.dry_run => UNCHANGED <<hashdb, removed, dlog, files, archive, deleted>>]_vars

\* a dry run with unbookmarking on has finished a post whose first attachment
\* went through the replace branch and whose second was a duplicate
C28_Witness ==
    /\ cfg.dry_run
    /\ Unbookmark
    /\ pc = "pull"
    /\ count = 1
    /\ ok
    /\ Len(prevOutcome) = 2
    /\ prevOutcome[1].st = "Replaced"
    /\ prevOutcome[2].st = "duplicate_younger"
    /\ deleted = {}
    /\ removed = <<>>
    /\ dlog = <<>>
    /\ Len(hashdb) = 1
    /\ files = FilesFor(hashdb)

(* ------------------------------- C29 ----------------------------------- *)
\* the records of the index in memory and of the content log on disk
Records(d) == {d[i].val : i \in 1..Len(d)}
LiveOrLogged == Records(entries) \cup Records(_load(hashdb))

\* C29: without dry-run the filepath of every live record refers to a file
\* that exists, in particular after every completed process_status call and
\* every completed prune; a record refers to a missing file only in the
\* middle of a replace, between the disposal of the old file at that path and
\* the rename of the staged one to it.
C29_RecordsHaveFiles ==
    ~cfg.dry_run =>
        \A r \in LiveOrLogged :
            files[r.filepath.loc] = 0 => pc = "rep_rename" /\ r.filepath.loc = OldLoc

\* a run stored a new file, and a prune then removed the older record and its
\* file: the record that is left has its file
C29_Witness ==
    /\ pc = "idle"
    /\ ~cfg.dry_run
    /\ pruned.rewrites = 1
    /\ Len(pruned.ret) = 1
    /\ files[pruned.ret[1].filepath.loc] = 0
    /\ Len(entries) = 1
    /\ entries[1].val.statusid = 1
    /\ entries[1].key # pruned.ret[1].sha256
    /\ files[entries[1].val.filepath.loc] = entries[1].key

(* ------------------------------- C30 ----------------------------------- *)
\* rule lists a configuration file supplies: none, the one of the test of
\* load_config, the same in the other order, and one whose pattern is
\* written in capitals
ClassifyRules ==
    {<<>>,
     <<Rule("*.example", "demo"), Rule("*", "fallback")>>,
     <<Rule("*", "fallback"), Rule("*.example", "demo")>>,
     <<Rule("*.EXAMPLE", "demo"), Rule("*.social", "social")>>}

ClassifyCfgs == {[c EXCEPT !.rules = r] : c \in FetchCfgs, r \in ClassifyRules}

InitClassify == InitWith(ClassifyCfgs, {<<>>})

SpecClassify == InitClassify /\ [][NextFetch]_vars

\* the label the supplied rules give a hostname: the group of the first rule,
\* in the order given, whose pattern matches the case-folded hostname; the
\* catch-all label when no rule matches or the hostname is empty
SuppliedLabel(host) ==
    LET rules == IF cfg.rules = <<>> THEN DEFAULT_CLASSIFICATION_RULE_SPECS ELSE cfg.rules
        hits == {i \in 1..Len(rules) : fnmatch(lower(host), lower(rules[i].match))}
        stars == {i \in 1..Len(rules) : rules[i].match = "*"}
        catchall == IF stars = {} THEN "other"
                    ELSE rules[CHOOSE i \in stars : \A j \in stars : i <= j].group
    IN  IF host = "" \/ hits = {} THEN catchall
        ELSE rules[CHOOSE i \in hits : \A j \in hits : i <= j].group

Labelled(r) ==
    /\ r.origin_group = SuppliedLabel(r.origin_host)
    /\ r.account_group = SuppliedLabel(r.account_host)

\* C30: the group labels process_status writes into content records and
\* removal records are those the supplied rule list gives the origin host of
\* the attachment and the account host of the post.
C30_LabelsFollowSuppliedRules ==
    /\ \A i \in 1..Len(hashdb) : Labelled(hashdb[i].rec)
    /\ \A i \in 1..Len(removed) : Labelled(removed[i].rec)
(* ------------- the content store, its writer killed in a write -------- *)
\* JsonlHashDB.set is killed inside f.write: the record is in the index of
\* the dying process, and of its line the log holds a beginning, or all of it
\* but the newline
SetKilled(r, k) ==
    /\ pc = "store"
    /\ crashed = ""
    /\ Len(hashdb) < MaxLog
    /\ ~Unterminated(hashdb)
    /\ entries' = set(entries, r)
    /\ hashdb' = Append(hashdb, [kind |-> k, rec |-> r])
    /\ pruned' = NoDelete
    /\ crashed' = "set"
    /\ pc' = "dead"
    /\ UNCHANGED <<cfg, dl, notfound, now, recent, removed, dlog, files, archive, tmpfiles,
                   deleted, sleeps, call, ok, count, pulled, prev>>

\* the next process constructs its store from the log
Restart ==
    /\ pc = "dead"
    /\ entries' = _load(hashdb)
    /\ pc' = "store"
    /\ UNCHANGED <<cfg, dl, ops, now, recent, disk, deleted, sleeps, call, ok,
                   count, pulled, prev>>

DurableDbs == {<<>>} \cup {<<EntryLine(r)>> : r \in StoreRecs}

InitDurable ==
    /\ cfg = Config("keep_old", FALSE, TRUE, TRUE, TRUE, FALSE, 0, 0)
    /\ hashdb \in DurableDbs
    /\ entries = _load(hashdb)
    /\ pc = "store"
    /\ Fresh

NextDurable ==
    \/ \E r \in StoreRecs : StoreSet(r)
    \/ \E paths \in SUBSET StorePaths : StoreDelete(paths)
    \/ StoreLoad
    \/ \E r \in StoreRecs, k \in {"torn", "open"} : SetKilled(r, k)
    \/ Restart

SpecDurable == InitDurable /\ [][NextDurable]_vars

(* ------------------------------- C31 ----------------------------------- *)
\* two indexes hold the same hashes with the same records
SameIndex(a, b) ==
    /\ {a[i].key : i \in 1..Len(a)} = {b[i].key : i \in 1..Len(b)}
    /\ \A i \in 1..Len(a) : get(b, a[i].key) = {a[i].val}

\* C31: whenever a store is live, after any sequence of set and
\* delete_by_filepaths calls and also after a restart that followed a kill
\* in the middle of a log write, a fresh store constructed from the content
\* log holds exactly the records of the live store's index.
C31_DurableRoundTrip == pc = "store" => SameIndex(_load(hashdb), entries)

(* ------------------------------- C32 ----------------------------------- *)
\* the step appends a line to the content log, to the download log
Persists == Len(hashdb') = Len(hashdb) + 1
Logs == Len(dlog') = Len(dlog) + 1

HasRecord(lines, H) == \E i \in 1..Len(lines) : lines[i].rec.sha256 = H

Processed(i) ==
    outcome[i].st \in Duplicates \cup {"Stored", "Replaced", "Raised"}

\* C33: under keep_old or latest the creation timestamp of the record a
\* process holds of a hash changes only in a replace and then to a strictly
\* earlier time; and
\* once a post with a parseable timestamp carrying the content has been
\* processed, the record of the hash (its own timestamp parseable) is not
\* later than that post, so that the record ends at the earliest of the
\* posts in whatever order they came.
C33_EarliestTimestampWins ==
    /\ [][(cfg.policy \in {"keep_old", "latest"} /\ pc \notin {"idle", "fatal"}) =>
            \A H \in Hashes :
                \A old \in get(entries, H) : \A new \in get(entries', H) :
                    new.created_at # old.created_at =>
                        /\ pc = "rep_record"
                        /\ Parses(old.created_at) /\ Parses(new.created_at)
                        /\ new.created_at.t < old.created_at.t]_vars
    /\ [](cfg.policy \in {"keep_old", "latest"} =>
            \A i \in 1..Len(outcome) :
                (Processed(i) /\ Parses(status.created_at)) =>
                    \A e \in get(entries, outcome[i].sha) :
                        Parses(e.created_at) =>
                            e.created_at.t <= status.created_at.t)

(* ------------------------------- C34 ----------------------------------- *)
\* no process_status call is under way
BetweenCalls == pc \in {"idle", "pull", "after", "count"}

\* C34: without dry-run, between process_status calls, distinct live records
\* have distinct filepaths and the file at the filepath of each live record
\* holds the content of the record's hash.
C34_StoreNeverOverwrites ==
    (~cfg.dry_run /\ BetweenCalls) =>
        /\ \A i, j \in 1..Len(entries) :
              i # j => entries[i].val.filepath.loc # entries[j].val.filepath.loc
        /\ \A i \in 1..Len(entries) :
              files[entries[i].val.filepath.loc] = entries[i].key

(* ------------------------------- C35 ----------------------------------- *)
\* C35: with an existing record the duplicate branch ends in a discard or in
\* a replace, whatever the two creation timestamps (missing, malformed,
\* with or without a UTC offset) and the policy, and raises nothing.
C35_DuplicateBranchTotal ==
    [][(pc = "dedup" /\ Existing # {}) =>
          /\ pc' # "fatal"
          /\ outcome'[idx + 1].st \in Duplicates \cup {"Replacing"}]_vars

(* ------------------------------- C36 ----------------------------------- *)
\* C36: an attachment is skipped as media_not_found_cached only when a
\* download of its own URL has answered 404, in this run or in an earlier
\* one.
C36_OnlyFailedUrlsSuppressed ==
    \A i \in 1..Len(outcome) :
        outcome[i].st = "Cached" =>
            \E n \in notfound : n.url = MediaUrl(status.media[i])

(* ------------------------------- C37 ----------------------------------- *)
\* runs one after the other while time passes, over logs that only these
\* runs write; every download answers 404
RestartCfgs ==
    {Config("keep_old", d, lr, TRUE, TRUE, FALSE, 0, w) :
        d \in BOOLEAN, lr \in BOOLEAN, w \in 0..2}

InitRestart == InitWith(RestartCfgs, {<<>>})

NextRestart ==
    \/ StartRun
    \/ Tick
    \/ \E st \in TrackerStatuses : Pull(st)
    \/ EndFeed
    \/ FilterPass
    \/ SkipCached
    \/ DownloadNotFound
    \/ Return
    \/ RateSleep
    \/ AfterStatus

SpecRestart == InitRestart /\ [][NextRestart]_vars

\* the tracker a run constructs holds every URL whose download answered 404
\* within the window before the start of the run, when `persisted` held of
\* the runs; and a URL the tracker holds is skipped, not downloaded
SurvivesRestart(persisted) ==
    /\ (Constructs /\ cfg.window > 0 /\ persisted) =>
          \A n \in notfound : n.time >= now - cfg.window => n.url \in recent'
    /\ (InLoop /\ outcome' # outcome /\ cfg.window > 0 /\ CurUrl \in recent) =>
          (outcome'[idx + 1].st = "Cached" /\ notfound' = notfound)

\* C37 as claimed: with the cache enabled, a URL whose download answered 404
\* in one run is skipped without a download by a later run started within
\* the window.
C37_NotFoundSurvivesRestart == [][SurvivesRestart(TRUE)]_vars

\* C37 as amended: with the cache enabled, removal logging on and dry-run
\* off, a URL whose download answered 404 in one run is skipped without a
\* download by a later run started within the window.
C37_LoggedNotFoundSurvivesRestart ==
    [][SurvivesRestart(cfg.log_removed /\ ~cfg.dry_run)]_vars

\* a later run, started after time has passed, skipped the URL that
\* answered 404 in the run before
C37_Witness ==
    /\ pulled = 2
    /\ count = 0
    /\ now > 0
    /\ pc = "media"
    /\ idx = 1
    /\ outcome[1].st = "Cached"
    /\ \E n \in notfound : n.url = MediaUrl(status.media[1]) /\ n.time < now
    /\ prevOutcome # <<>>
    /\ prevOutcome[1].st = "NotFound"

(* ------------------------------- C38 ----------------------------------- *)
\* process_status has returned or raised
CallOver == pc \in {"after", "count", "pull", "idle", "fatal"}

\* C38: no staged temp file is left behind: when process_status has returned
\* or raised every temp file a download made has been renamed into the
\* download tree or deleted; and when download_and_sha256 has ended the only
\* temp file there is is the one it returned.
C38_NoStagedFileLeaked ==
    /\ CallOver => tmpfiles = 0
    /\ pc = "dl_done" => tmpfiles = IF result.kind = "returned" THEN 1 ELSE 0

(* ------------------------------- C39 ----------------------------------- *)
\* C39: with dry-run set no step of process_status changes the index the
\* store holds in memory: get returns for every hash what it returned when
\* the store was loaded.
C39_DryRunLeavesIndexAlone ==
    [][(cfg.dry_run /\ pc \notin {"idle", "fatal"}) =>
          \A H \in Hashes : get(entries', H) = get(entries, H)]_vars

(* ------------------------------- C40 ----------------------------------- *)
\* the run after the kill has processed the post that was in hand when the
\* process was killed, and its attachment had the same content
Rerun ==
    /\ pc = "after"
    /\ status = prevStatus
    /\ Settled(1)
    /\ prevOutcome[1].sha = outcome[1].sha

\* C40: after a kill while an attachment was being stored as new (after the
\* rename and before the record was persisted, or after the record was
\* persisted and before the download-log line was written) a run on the same
\* post ends with exactly one record of the hash, exactly one stored file
\* with that content and a download-log line for that file.
C40_StoreRecoversFromCrash ==
    (crashed \in {"new_record", "new_log"} /\ Rerun) =>
        LET H == outcome[1].sha IN
        /\ Cardinality(LiveRecords(H)) = 1
        /\ Cardinality({l \in Locs : files[l] = H}) = 1
        /\ \A e \in get(entries, H) :
              /\ files[e.filepath.loc] = H
              /\ \E j \in 1..Len(dlog) :
                    dlog[j].sha256 = H /\ dlog[j].filepath = e.filepath
====
